---- MODULE Spec2Model ----
(***************************************************************************)
(* State-machine model of prompt-builder: the streaming chat transport     *)
(* (ChatClient.ChatStream), the progress indicator (Spinner), the turn     *)
(* loop (runWithDeps) and the slash-command dispatcher                     *)
(* (HandleCommandWithClipboard).                                           *)
(*                                                                         *)
(* Text is a sequence of one-character strings, so trimming, prefix tests  *)
(* and concatenation are computed and not assumed.                         *)
(***************************************************************************)
EXTENDS Integers, Sequences, FiniteSets, TLC

\* ------------------------------------------------------------------ bounds
\* longest response body, in lines, of the transport harness
MaxLines == 3
\* backend requests per run
MaxRequests == 2
\* input lines read per run
MaxInputs == 2
\* animation frames drawn per run
MaxTicks == 1
\* pieces a text of the text test is made of
MaxPieces == 6
\* concurrent callers of Spinner.Stop in the Spinner test
MaxCallers == 2
\* Stop calls each caller makes in a row
MaxStops == 2

\* ------------------------------------------------------- program constants
StatusOK == 200

\* ------------------------------------------------------------ text helpers
RECURSIVE Flatten(_)
\* concatenation of a sequence of texts
Flatten(ss) == IF ss = <<>> THEN <<>> ELSE Head(ss) \o Flatten(Tail(ss))

\* strings.HasPrefix
HasPrefix(s, p) == Len(s) >= Len(p) /\ SubSeq(s, 1, Len(p)) = p

\* strings.HasSuffix
HasSuffix(s, p) == Len(s) >= Len(p) /\ SubSeq(s, Len(s) - Len(p) + 1, Len(s)) = p

\* strings.Contains
Contains(s, p) == \E i \in 1..(Len(s) - Len(p) + 1) : SubSeq(s, i, i + Len(p) - 1) = p

\* strings.TrimPrefix
TrimPrefix(s, p) == IF HasPrefix(s, p) THEN SubSeq(s, Len(p) + 1, Len(s)) ELSE s

\* unicode.IsSpace, restricted to the characters of the model
IsSpace(c) == c \in {" ", "\n", "\t", "\r"}

\* strings.TrimSpace
TrimSpace(s) ==
    LET keep == {i \in 1..Len(s) : ~IsSpace(s[i])}
        Min(S) == CHOOSE x \in S : \A y \in S : x <= y
        Max(S) == CHOOSE x \in S : \A y \in S : x >= y
    IN  IF keep = {} THEN <<>> ELSE SubSeq(s, Min(keep), Max(keep))

UpperLetters ==
    <<"A", "B", "C", "D", "E", "F", "G", "H", "I", "J", "K", "L", "M",
      "N", "O", "P", "Q", "R", "S", "T", "U", "V", "W", "X", "Y", "Z">>
LowerLetters ==
    <<"a", "b", "c", "d", "e", "f", "g", "h", "i", "j", "k", "l", "m",
      "n", "o", "p", "q", "r", "s", "t", "u", "v", "w", "x", "y", "z">>

\* unicode.ToLower on one character
ToLowerChar(c) ==
    IF \E i \in 1..Len(UpperLetters) : UpperLetters[i] = c
    THEN LowerLetters[CHOOSE i \in 1..Len(UpperLetters) : UpperLetters[i] = c]
    ELSE c

\* strings.ToLower
ToLower(s) == [i \in 1..Len(s) |-> ToLowerChar(s[i])]

\* ------------------------------------------------------- response framing
\* A body line is kept by what ChatStream can observe of it:
\*   blank     the empty line
\*   noprefix  a non-empty line that does not start with "data: "
\*   done      "data: [DONE]"
\*   donecut   "data: [DONE]" handed out by the scanner after a read has
\*             failed: the line was cut short by the failure (no line break
\*             came), or it came in with the read that failed; the scanner
\*             has recorded the error
\*   badjson   "data: " followed by text json.Unmarshal rejects
\*   chunk     "data: " followed by a JSON chunk (choices, first delta content,
\*             finish_reason present or not)
\*   readerr   the scanner fails here (I/O error, or a line over its buffer)
\* the backquote character (written by name)
Tick == "BT"
\* const marker
Fence == <<Tick, Tick, Tick>>

Line(k, n, c, f) == [kind |-> k, choices |-> n, content |-> c, finish |-> f]

PlainLines == {Line(k, 0, <<>>, FALSE) : k \in {"blank", "noprefix", "done", "donecut", "badjson", "readerr"}}

\* lines of the transport harness: every kind, one delta with a finish reason
HarnessLines ==
    PlainLines \cup {Line("chunk", 0, <<>>, FALSE), Line("chunk", 1, <<>>, TRUE),
                     Line("chunk", 1, <<"a">>, FALSE), Line("chunk", 1, <<"?">>, TRUE)}

HarnessBodies == UNION {[1..n -> HarnessLines] : n \in 0..MaxLines}

\* line == ""
IsEmptyLine(l) == l.kind = "blank"

\* variant: every line that is not empty is taken as a data line
HasDataPrefixUnlessBlank(l) == l.kind # "blank"

\* strings.HasPrefix(line, "data: ")
HasDataPrefix(l) == l.kind \in {"done", "donecut", "badjson", "chunk"}

\* data == "[DONE]"
IsDoneSentinel(l) == l.kind \in {"done", "donecut"}

\* scanner.Err() != nil once the loop has been left at line l
ScannerErr(l) == l.kind = "donecut"

\* json.Unmarshal(data, &chunk) == nil
UnmarshalOK(l) == l.kind = "chunk"

\* chunk.Choices[0].Delta.Content
DeltaContent(l) == l.content

\* variant: only server errors are refused
StatusFailsServerOnly(s) == s >= 500

\* resp.StatusCode != http.StatusOK
StatusFails(s) == s # StatusOK

\* variant: the content is put before the text accumulated so far
WriteStringFront(acc, content) == content \o acc

\* accumulated.WriteString(content)
WriteString(acc, content) == acc \o content

\* ------------------------------------------------------------------ errors
NoErr == [kind |-> "none", detail |-> "none"]
Err(k, d) == [kind |-> k, detail |-> d]
\* the error a failing callback returns
CallbackErr == Err("callback", "callback failed")


\* ------------------------------------------------------------------- state
VARIABLES
    tty,          \* deps.IsTTY()
    quiet,        \* cli.Quiet
    clipboard,    \* deps.Clipboard: "nil", or a writer "nocmd" | "cmdok" | "cmdfail"
    caller,       \* who drives: a test ("harness" | "text" | "spinner") or "run"
    cbFailAt,     \* harness callback fails on this invocation (0: never)
    connectOK,    \* c.client.Post succeeds
    status,       \* resp.StatusCode
    body,         \* resp.Body, as lines
    spc,          \* position in ChatStream: "idle" | "post" | "status" | "scan" | "ret"
    pos,          \* index of the next body line the scanner yields
    accumulated,  \* strings.Builder of ChatStream
    calls,        \* tokens handed to the callback, in order (failed call included)
    sres,         \* what ChatStream returned: [err, text]
    spinner,      \* Spinner of the current ChatStreamWithSpinner call
    onceDone,     \* sync.Once of the current call has fired
    stops,        \* Spinner.Stop calls made in the current call
    orphans,      \* indicator tasks of earlier calls still alive: [open, closed]
    ticks,        \* animation frames drawn so far
    term,         \* writes of the indicator tasks (fmt.Printf to os.Stdout), in order
    pc,           \* position in runWithDeps
    conv,         \* conv.Messages
    response,     \* response of the latest successful request
    requests,     \* message lists passed to ChatStreamWithSpinner, in order
    inputsRead,   \* reader.ReadString calls made
    lastInput,    \* outcome of the latest ReadString / command
    stdout,       \* writes to deps.Stdout, in order
    stderr,       \* writes to deps.Stderr, in order
    clip,         \* texts handed to the clipboard command
    runErr,       \* what runWithDeps returned ("running" before it returns)
    txt,          \* argument(s) of the slash.go functions under test
    tpc,          \* position of the text test or command test ("idle": none)
    tres,         \* what the functions under test returned
    stopper,      \* per concurrent caller of Spinner.Stop: [at, done, running]
    started,      \* the Spinner test has called Start
    panicked      \* the process died of a runtime panic

cfgVars == <<tty, quiet, clipboard, caller, cbFailAt>>
streamVars == <<connectOK, status, body, spc, pos, accumulated, calls, sres>>
spinVars == <<spinner, onceDone, stops, orphans, ticks, term>>
runVars == <<pc, conv, response, requests, inputsRead, lastInput, clip, runErr>>
outVars == <<stdout, stderr>>
harnessVars == <<txt, tpc, tres, stopper, started, panicked>>
vars == <<cfgVars, harnessVars, streamVars, spinVars, runVars, outVars>>

\* one write to an output stream
Ev(k, t) == [k |-> k, t |-> t]

\* ------------------------------------------------------------------ Spinner
\* no Spinner (spinner == nil in ChatStreamWithSpinner)
NilSpinner == [made |-> FALSE, tty |-> FALSE, stopCh |-> "open", task |-> "none"]

NewSpinnerWithTTY(t) == [made |-> TRUE, tty |-> t, stopCh |-> "open", task |-> "none"]

\* variant: Start creates the task whether or not there is a terminal
SpinnerStartAlways(s) == [s EXCEPT !.task = "loop"]

\* Spinner.Start: the task is created only with a terminal
SpinnerStart(s) == IF ~s.tty THEN s ELSE [s EXCEPT !.task = "loop"]

\* Spinner.Stop: close stopCh unless it is closed already
SpinnerStop(s) == IF s.stopCh = "closed" THEN s ELSE [s EXCEPT !.stopCh = "closed"]

\* the task of the current Spinner draws one frame (case <-ticker.C)
SpinnerTick ==
    /\ pc # "done"
    /\ ~panicked
    /\ spinner.task = "loop"
    /\ ticks < MaxTicks
    /\ ticks' = ticks + 1
    /\ term' = Append(term, Ev("frame", <<>>))
    /\ UNCHANGED <<cfgVars, harnessVars, streamVars, runVars, spinner, onceDone, stops, orphans, outVars>>

\* variant: a frame is drawn after the line has been cleared
SpinnerClearThenFrame ==
    /\ pc # "done"
    /\ ~panicked
    /\ spinner.task = "loop"
    /\ spinner.stopCh = "closed"
    /\ spinner' = [spinner EXCEPT !.task = "exited"]
    /\ term' = term \o <<Ev("erase", <<>>), Ev("frame", <<>>)>>
    /\ UNCHANGED <<cfgVars, harnessVars, streamVars, runVars, onceDone, stops, orphans, ticks, outVars>>

\* the task of the current Spinner sees stopCh closed: clearLine, then return
SpinnerClear ==
    /\ pc # "done"
    /\ ~panicked
    /\ spinner.task = "loop"
    /\ spinner.stopCh = "closed"
    /\ spinner' = [spinner EXCEPT !.task = "exited"]
    /\ term' = Append(term, Ev("erase", <<>>))
    /\ UNCHANGED <<cfgVars, harnessVars, streamVars, runVars, onceDone, stops, orphans, ticks, outVars>>

\* a task left over from an earlier call draws one frame
OrphanTick ==
    /\ pc # "done"
    /\ ~panicked
    /\ orphans.open + orphans.closed > 0
    /\ ticks < MaxTicks
    /\ ticks' = ticks + 1
    /\ term' = Append(term, Ev("frame", <<>>))
    /\ UNCHANGED <<cfgVars, harnessVars, streamVars, runVars, spinner, onceDone, stops, orphans, outVars>>

\* a stopped task left over from an earlier call clears its line and returns
OrphanClear ==
    /\ pc # "done"
    /\ ~panicked
    /\ orphans.closed > 0
    /\ orphans' = [orphans EXCEPT !.closed = @ - 1]
    /\ term' = Append(term, Ev("erase", <<>>))
    /\ UNCHANGED <<cfgVars, harnessVars, streamVars, runVars, spinner, onceDone, stops, ticks, outVars>>

\* --------------------------------------------------------------- ChatStream
\* ChatStream returns (text, err)
Return(text, err) ==
    /\ spc' = "ret"
    /\ sres' = [err |-> err, text |-> text]

\* c.client.Post fails: connection error
PostFail ==
    /\ spc = "post"
    /\ ~connectOK
    /\ Return(<<>>, Err("connect", "failed to connect to LLM server"))
    /\ UNCHANGED <<cfgVars, harnessVars, connectOK, status, body, pos, accumulated, calls,
                   spinVars, runVars, outVars>>

\* c.client.Post succeeds
PostOK ==
    /\ spc = "post"
    /\ connectOK
    /\ spc' = "status"
    /\ UNCHANGED <<cfgVars, harnessVars, connectOK, status, body, pos, accumulated, calls, sres,
                   spinVars, runVars, outVars>>

\* resp.StatusCode != http.StatusOK: read the body, fail
StatusError ==
    /\ spc = "status"
    /\ StatusFails(status)
    /\ Return(<<>>, Err("http", "LLM request failed"))
    /\ UNCHANGED <<cfgVars, harnessVars, connectOK, status, body, pos, accumulated, calls,
                   spinVars, runVars, outVars>>

\* status accepted: create the builder and the scanner
StatusAccepted ==
    /\ spc = "status"
    /\ ~StatusFails(status)
    /\ spc' = "scan"
    /\ pos' = 1
    /\ accumulated' = <<>>
    /\ UNCHANGED <<cfgVars, harnessVars, connectOK, status, body, calls, sres,
                   spinVars, runVars, outVars>>

Scanning == spc = "scan" /\ pos <= Len(body)

\* scanner.Scan() is false at the end of the body, scanner.Err() is nil
ScanEOF ==
    /\ spc = "scan"
    /\ pos > Len(body)
    /\ Return(accumulated, NoErr)
    /\ UNCHANGED <<cfgVars, harnessVars, connectOK, status, body, pos, accumulated, calls,
                   spinVars, runVars, outVars>>

\* scanner.Scan() is false and scanner.Err() is set
ScanError ==
    /\ Scanning
    /\ body[pos].kind = "readerr"
    /\ Return(<<>>, Err("read", "error reading stream"))
    /\ UNCHANGED <<cfgVars, harnessVars, connectOK, status, body, pos, accumulated, calls,
                   spinVars, runVars, outVars>>

\* an empty line, or one without the "data: " prefix: continue
SkipLine ==
    /\ Scanning
    /\ body[pos].kind # "readerr"
    /\ IsEmptyLine(body[pos]) \/ ~HasDataPrefix(body[pos])
    /\ pos' = pos + 1
    /\ UNCHANGED <<cfgVars, harnessVars, connectOK, status, body, spc, accumulated, calls, sres,
                   spinVars, runVars, outVars>>

\* a data line the loop goes on to examine
DataLine ==
    /\ Scanning
    /\ body[pos].kind # "readerr"
    /\ ~IsEmptyLine(body[pos])
    /\ HasDataPrefix(body[pos])

\* data == "[DONE]": break; then scanner.Err() is looked at, and the
\* accumulated text is returned only when it is nil
Sentinel ==
    /\ DataLine
    /\ IsDoneSentinel(body[pos])
    /\ IF ScannerErr(body[pos])
       THEN Return(<<>>, Err("read", "error reading stream"))
       ELSE Return(accumulated, NoErr)
    /\ UNCHANGED <<cfgVars, harnessVars, connectOK, status, body, pos, accumulated, calls,
                   spinVars, runVars, outVars>>

\* variant: an undecodable frame is skipped and reading continues
ParseErrorSkips ==
    /\ Scanning
    /\ body[pos].kind = "badjson"
    /\ pos' = pos + 1
    /\ UNCHANGED <<cfgVars, harnessVars, connectOK, status, body, spc, accumulated, calls, sres,
                   spinVars, runVars, outVars>>

\* json.Unmarshal fails
ParseError ==
    /\ DataLine
    /\ ~IsDoneSentinel(body[pos])
    /\ ~UnmarshalOK(body[pos])
    /\ Return(<<>>, Err("parse", "failed to parse streaming chunk"))
    /\ UNCHANGED <<cfgVars, harnessVars, connectOK, status, body, pos, accumulated, calls,
                   spinVars, runVars, outVars>>

\* a chunk the loop decoded
Chunk ==
    /\ DataLine
    /\ ~IsDoneSentinel(body[pos])
    /\ UnmarshalOK(body[pos])

\* a chunk with content to deliver
HasContent(l) == l.choices # 0 /\ DeltaContent(l) # <<>>

\* variant: a frame without content that carries a finish reason ends the
\* stream
NoContentFinishEnds ==
    /\ Chunk
    /\ ~HasContent(body[pos])
    /\ IF body[pos].finish
       THEN Return(accumulated, NoErr) /\ pos' = pos
       ELSE pos' = pos + 1 /\ UNCHANGED <<spc, sres>>
    /\ UNCHANGED <<cfgVars, harnessVars, connectOK, status, body, accumulated, calls,
                   spinVars, runVars, outVars>>

\* no choices, or an empty content: continue
NoContent ==
    /\ Chunk
    /\ ~HasContent(body[pos])
    /\ pos' = pos + 1
    /\ UNCHANGED <<cfgVars, harnessVars, connectOK, status, body, spc, accumulated, calls, sres,
                   spinVars, runVars, outVars>>

\* the harness callback fails on its cbFailAt-th invocation; the callback
\* runWithDeps passes always returns nil
CallbackFails == caller = "harness" /\ Len(calls) + 1 = cbFailAt

\* variant: the Spinner is stopped on every token, without the sync.Once
WrappedCallbackStopsAlways(token) ==
    /\ onceDone' = TRUE
    /\ spinner' = IF spinner.made THEN SpinnerStop(spinner) ELSE spinner
    /\ stops' = IF spinner.made THEN stops + 1 ELSE stops
    /\ UNCHANGED <<orphans, ticks, term>>

\* wrappedCallback of ChatStreamWithSpinner up to its call of onToken:
\* once.Do fires, and stops the Spinner if there is one
WrappedCallback(token) ==
    /\ onceDone' = TRUE
    /\ spinner' = IF ~onceDone /\ spinner.made THEN SpinnerStop(spinner) ELSE spinner
    /\ stops' = IF ~onceDone /\ spinner.made THEN stops + 1 ELSE stops
    /\ UNCHANGED <<orphans, ticks, term>>

\* the callback of runWithDeps: print the token unless quiet, return nil
RunCallback(token) ==
    /\ stdout' = IF ~quiet THEN Append(stdout, Ev("token", token)) ELSE stdout
    /\ UNCHANGED stderr

\* what the callback of the transport test does outside ChatStream: nothing
OnToken(token) == UNCHANGED <<spinVars, outVars>>

\* a non-empty content in a run: onToken is wrappedCallback, which has got
\* as far as its call of the callback of runWithDeps
TokenStop ==
    /\ caller = "run"
    /\ Chunk
    /\ HasContent(body[pos])
    /\ calls' = Append(calls, DeltaContent(body[pos]))
    /\ WrappedCallback(DeltaContent(body[pos]))
    /\ spc' = "token"
    /\ UNCHANGED <<cfgVars, harnessVars, connectOK, status, body, pos, accumulated, sres,
                   runVars, outVars>>

\* the callback of runWithDeps prints the token and returns nil; the
\* content is accumulated and the loop goes on
TokenPrint ==
    /\ caller = "run"
    /\ spc = "token"
    /\ RunCallback(DeltaContent(body[pos]))
    /\ accumulated' = WriteString(accumulated, DeltaContent(body[pos]))
    /\ pos' = pos + 1
    /\ spc' = "scan"
    /\ UNCHANGED <<cfgVars, harnessVars, connectOK, status, body, calls, sres, spinVars,
                   runVars>>

\* a non-empty content in the transport test: the callback succeeds, the
\* content is accumulated
Token ==
    /\ caller = "harness"
    /\ Chunk
    /\ HasContent(body[pos])
    /\ ~CallbackFails
    /\ calls' = Append(calls, DeltaContent(body[pos]))
    /\ OnToken(DeltaContent(body[pos]))
    /\ accumulated' = WriteString(accumulated, DeltaContent(body[pos]))
    /\ pos' = pos + 1
    /\ UNCHANGED <<cfgVars, harnessVars, connectOK, status, body, spc, sres, runVars>>

\* variant: the text accumulated so far is returned with the callback error
TokenFailKeepsText ==
    /\ Scanning
    /\ body[pos].kind = "chunk"
    /\ HasContent(body[pos])
    /\ CallbackFails
    /\ calls' = Append(calls, DeltaContent(body[pos]))
    /\ OnToken(DeltaContent(body[pos]))
    /\ Return(accumulated, CallbackErr)
    /\ UNCHANGED <<cfgVars, harnessVars, connectOK, status, body, pos, accumulated, runVars>>

\* a non-empty content: the callback fails, its error is returned as it is
TokenFail ==
    /\ Chunk
    /\ HasContent(body[pos])
    /\ CallbackFails
    /\ calls' = Append(calls, DeltaContent(body[pos]))
    /\ OnToken(DeltaContent(body[pos]))
    /\ Return(<<>>, CallbackErr)
    /\ UNCHANGED <<cfgVars, harnessVars, connectOK, status, body, pos, accumulated, runVars>>

\* the steps of ChatStream but for the call of the callback
StreamSteps ==
    \/ PostFail \/ PostOK \/ StatusError \/ StatusAccepted
    \/ ScanEOF \/ ScanError \/ SkipLine \/ Sentinel \/ ParseError
    \/ NoContent

\* ChatStream in the transport test, with a callback that may fail
StreamNext == StreamSteps \/ Token \/ TokenFail

\* ChatStream in a run, under ChatStreamWithSpinner
RunStreamSteps == StreamSteps \/ TokenStop \/ TokenPrint

\* ------------------------------------------------- transport harness (test)
Statuses == {200, 201, 404, 500}

IdleRun ==
    /\ pc = "harness"
    /\ conv = <<>>
    /\ response = <<>>
    /\ requests = <<>>
    /\ inputsRead = 0
    /\ lastInput = [kind |-> "none", line |-> <<>>, exit |-> FALSE, err |-> [msg |-> "", arg |-> <<>>]]
    /\ clip = <<>>
    /\ runErr = Err("running", "running")
    /\ stdout = <<>>
    /\ stderr = <<>>

Callers == 1..MaxCallers

\* a caller that has not called Stop: where it is in Stop ("idle" outside,
\* "default" before close), the calls it completed, and whether every call
\* it began found the indicator running
NoCalls == [at |-> "idle", done |-> 0, running |-> TRUE]

\* no text test and no Spinner test is running
IdleText ==
    /\ txt = <<>>
    /\ tpc = "idle"
    /\ tres = [complete |-> FALSE, block |-> <<>>]

IdleStoppers ==
    /\ stopper = [c \in Callers |-> NoCalls]
    /\ started = FALSE
    /\ panicked = FALSE

IdleSpinner ==
    /\ spinner = NilSpinner
    /\ onceDone = FALSE
    /\ stops = 0
    /\ orphans = [open |-> 0, closed |-> 0]
    /\ ticks = 0
    /\ term = <<>>

\* a test calls ChatStream on a response of its choice with a callback that
\* fails on the cbFailAt-th token
InitStream ==
    /\ tty = FALSE /\ quiet = FALSE /\ clipboard = "nil"
    /\ caller = "harness"
    /\ cbFailAt \in 0..MaxLines
    /\ connectOK \in BOOLEAN
    /\ status \in Statuses
    /\ body \in HarnessBodies
    /\ spc = "post"
    /\ pos = 1
    /\ accumulated = <<>>
    /\ calls = <<>>
    /\ sres = [err |-> NoErr, text |-> <<>>]
    /\ IdleSpinner
    /\ IdleRun
    /\ IdleText
    /\ IdleStoppers

SpecStream == InitStream /\ [][StreamNext]_vars


\* ------------------------------------------------------------ slash.go
\* text[a:b] with Go's zero-based offsets
Slice(s, a, b) == SubSeq(s, a + 1, b)

\* strings.Index: offset of the first occurrence, -1 when there is none
Index(s, p) ==
    LET occ == {i \in 0..(Len(s) - Len(p)) : Slice(s, i, i + Len(p)) = p}
    IN  IF occ = {} THEN -1 ELSE CHOOSE i \in occ : \A j \in occ : i <= j

\* strings.LastIndex: offset of the last occurrence, -1 when there is none
LastIndex(s, p) ==
    LET occ == {i \in 0..(Len(s) - Len(p)) : Slice(s, i, i + Len(p)) = p}
    IN  IF occ = {} THEN -1 ELSE CHOOSE i \in occ : \A j \in occ : i >= j

\* variant: the opening marker is searched from the front of the text
ExtractFromFirstMarker(text) ==
    LET lastStart == LastIndex(text, Fence)
        beforeLast == Slice(text, 0, lastStart)
        openStart == Index(beforeLast, Fence)
        start0 == openStart + Len(Fence)
        idx == Index(Slice(text, start0, lastStart), <<"\n">>)
        contentStart == IF idx # -1 THEN start0 + idx + 1 ELSE start0
    IN  IF lastStart = -1 THEN <<>>
        ELSE IF openStart = -1 THEN <<>>
        ELSE Slice(text, contentStart, lastStart)

ExtractLastCodeBlock(text) ==
    LET lastStart == LastIndex(text, Fence)
        beforeLast == Slice(text, 0, lastStart)
        openStart == LastIndex(beforeLast, Fence)
        start0 == openStart + Len(Fence)
        idx == Index(Slice(text, start0, lastStart), <<"\n">>)
        contentStart == IF idx # -1 THEN start0 + idx + 1 ELSE start0
    IN  IF lastStart = -1 THEN <<>>
        ELSE IF openStart = -1 THEN <<>>
        ELSE Slice(text, contentStart, lastStart)

\* variant: the negation of endsWithQuestion is lost
IsCompleteQuestionOnly(resp) ==
    LET hasCodeBlock == Contains(resp, Fence)
        trimmed == TrimSpace(resp)
        endsWithQuestion == HasSuffix(trimmed, <<"?">>)
    IN  hasCodeBlock /\ endsWithQuestion

IsComplete(resp) ==
    LET hasCodeBlock == Contains(resp, Fence)
        trimmed == TrimSpace(resp)
        endsWithQuestion == HasSuffix(trimmed, <<"?">>)
    IN  hasCodeBlock /\ ~endsWithQuestion

\* variant: only the five known names count as commands
IsCommandKnownOnly(input) ==
    /\ HasPrefix(input, <<"/">>)
    /\ ToLower(TrimPrefix(input, <<"/">>)) \in
          {<<"b", "y", "e">>, <<"q", "u", "i", "t">>, <<"e", "x", "i", "t">>,
           <<"c", "o", "p", "y">>, <<"h", "e", "l", "p">>}

IsCommand(input) == HasPrefix(input, <<"/">>)

\* variant: the command name is the first word after the slash
parseCommandFirstWord(input) ==
    LET trimmed == TrimSpace(input)
        rest == ToLower(TrimPrefix(trimmed, <<"/">>))
        spaces == {i \in 1..Len(rest) : IsSpace(rest[i])}
    IN  IF ~HasPrefix(trimmed, <<"/">>) THEN <<>>
        ELSE IF spaces = {} THEN rest
        ELSE SubSeq(rest, 1, (CHOOSE i \in spaces : \A j \in spaces : i <= j) - 1)

\* variant: the command name keeps its case
parseCommandKeepsCase(input) ==
    LET trimmed == TrimSpace(input)
    IN  IF ~HasPrefix(trimmed, <<"/">>) THEN <<>>
        ELSE TrimPrefix(trimmed, <<"/">>)

parseCommand(input) ==
    LET trimmed == TrimSpace(input)
    IN  IF ~HasPrefix(trimmed, <<"/">>) THEN <<>>
        ELSE ToLower(TrimPrefix(trimmed, <<"/">>))

\* an error of the command dispatcher: its message and the text it embeds
CmdErr(msg, arg) == [msg |-> msg, arg |-> arg]
NoCmdErr == CmdErr("", <<>>)

\* CopyToClipboard behind clipboardFunc.Write: nothing is run without a
\* command; otherwise the text is piped to the command, which may fail
\* variant: the text is trimmed before it is piped to the command
ClipboardWriteTrimmed(cb, text) ==
    CASE cb = "nocmd"   -> [failed |-> FALSE, written |-> <<>>]
      [] cb = "cmdok"   -> [failed |-> FALSE, written |-> <<TrimSpace(text)>>]
      [] cb = "cmdfail" -> [failed |-> TRUE, written |-> <<>>]

ClipboardWrite(cb, text) ==
    CASE cb = "nocmd"   -> [failed |-> FALSE, written |-> <<>>]
      [] cb = "cmdok"   -> [failed |-> FALSE, written |-> <<text>>]
      [] cb = "cmdfail" -> [failed |-> TRUE, written |-> <<>>]

CmdResult(exit, err, out, written) ==
    [exit |-> exit, err |-> err, out |-> out, written |-> written]

\* variant: copy looks for the code block before it looks for a response
HandleCommandBlockFirst(input, lastResponse, cb) ==
    LET cmd == parseCommand(input)
        codeBlock == ExtractLastCodeBlock(lastResponse)
    IN  IF cmd \in {<<"b", "y", "e">>, <<"q", "u", "i", "t">>, <<"e", "x", "i", "t">>}
        THEN CmdResult(TRUE, NoCmdErr, <<Ev("Goodbye", <<>>)>>, <<>>)
        ELSE IF cmd = <<"c", "o", "p", "y">>
        THEN IF codeBlock = <<>>
             THEN CmdResult(FALSE, CmdErr("No code block to copy", <<>>), <<>>, <<>>)
             ELSE IF lastResponse = <<>>
             THEN CmdResult(FALSE, CmdErr("No response to copy from", <<>>), <<>>, <<>>)
             ELSE IF cb = "nil"
             THEN CmdResult(FALSE, CmdErr("Clipboard not available", <<>>), <<>>, <<>>)
             ELSE IF ClipboardWrite(cb, codeBlock).failed
             THEN CmdResult(FALSE, CmdErr("Clipboard not available", <<>>), <<>>,
                            ClipboardWrite(cb, codeBlock).written)
             ELSE CmdResult(TRUE, NoCmdErr, <<Ev("Copied to clipboard", <<>>)>>,
                            ClipboardWrite(cb, codeBlock).written)
        ELSE IF cmd = <<"h", "e", "l", "p">>
        THEN CmdResult(FALSE, NoCmdErr, <<Ev("help", <<>>)>>, <<>>)
        ELSE CmdResult(FALSE, CmdErr("Unknown command", cmd), <<>>, <<>>)

\* (shouldExit, err), what is printed on out and what reaches the clipboard
HandleCommandWithClipboard(input, lastResponse, cb) ==
    LET cmd == parseCommand(input)
        codeBlock == ExtractLastCodeBlock(lastResponse)
    IN  IF cmd \in {<<"b", "y", "e">>, <<"q", "u", "i", "t">>, <<"e", "x", "i", "t">>}
        THEN CmdResult(TRUE, NoCmdErr, <<Ev("Goodbye", <<>>)>>, <<>>)
        ELSE IF cmd = <<"c", "o", "p", "y">>
        THEN IF lastResponse = <<>>
             THEN CmdResult(FALSE, CmdErr("No response to copy from", <<>>), <<>>, <<>>)
             ELSE IF codeBlock = <<>>
             THEN CmdResult(FALSE, CmdErr("No code block to copy", <<>>), <<>>, <<>>)
             ELSE IF cb = "nil"
             THEN CmdResult(FALSE, CmdErr("Clipboard not available", <<>>), <<>>, <<>>)
             ELSE IF ClipboardWrite(cb, codeBlock).failed
             THEN CmdResult(FALSE, CmdErr("Clipboard not available", <<>>), <<>>,
                            ClipboardWrite(cb, codeBlock).written)
             ELSE CmdResult(TRUE, NoCmdErr, <<Ev("Copied to clipboard", <<>>)>>,
                            ClipboardWrite(cb, codeBlock).written)
        ELSE IF cmd = <<"h", "e", "l", "p">>
        THEN CmdResult(FALSE, NoCmdErr, <<Ev("help", <<>>)>>, <<>>)
        ELSE CmdResult(FALSE, CmdErr("Unknown command", cmd), <<>>, <<>>)

\* ----------------------------------------------------------- Conversation
Message(role, content) == [role |-> role, content |-> content]

NewConversation(systemPrompt) == <<Message("system", systemPrompt)>>

\* variant: the message is put in front of the history
AddUserMessagePrepend(msgs, content) == <<Message("user", content)>> \o msgs

AddUserMessage(msgs, content) == Append(msgs, Message("user", content))

\* variant: the reply takes the place of the last message
AddAssistantMessageOverwrites(msgs, content) ==
    [msgs EXCEPT ![Len(msgs)] = Message("assistant", content)]

AddAssistantMessage(msgs, content) == Append(msgs, Message("assistant", content))

\* ------------------------------------------------------------ runWithDeps
\* deps.SystemPrompt and cli.Idea, each kept as one opaque character
SystemPrompt == <<"You are a test assistant.">>
Idea == <<"test idea">>
\* the instruction put before the idea without a terminal
PipePrefix == <<"Generate your best prompt without asking clarifying questions. User's idea: ">>

\* what the backend may answer to a request of the run
DOpen == Fence \o <<"\n">>
DText == <<"a", "\n">>
DAsk == <<"a", "?">>
Delta(c) == Line("chunk", 1, c, FALSE)
StopChunk == Line("chunk", 1, <<>>, TRUE)
DoneLine == Line("done", 0, <<>>, FALSE)
BlankLine == Line("blank", 0, <<>>, FALSE)

RunBodies ==
    { <<Delta(DOpen), Delta(DText), Delta(Fence), StopChunk, DoneLine>>,
      <<Delta(Fence), DoneLine>>,
      <<Delta(DAsk), BlankLine, DoneLine>>,
      <<Delta(DOpen \o DText \o Fence), Delta(<<"?">>)>>,
      <<DoneLine>>,
      <<Delta(DText), Line("badjson", 0, <<>>, FALSE)>>,
      <<Line("readerr", 0, <<>>, FALSE)>> }

RunResponses ==
    {[connectOK |-> TRUE, status |-> StatusOK, body |-> b] : b \in RunBodies}
        \cup {[connectOK |-> FALSE, status |-> StatusOK, body |-> <<>>],
              [connectOK |-> TRUE, status |-> 500, body |-> <<Line("noprefix", 0, <<>>, FALSE)>>]}

\* lines the user may type, as ReadString('\n') returns them
InputLines ==
    { <<"/", "b", "y", "e", "\n">>,
      <<" ", "/", "Q", "U", "I", "T", " ", "\n">>,
      <<"/", "e", "x", "i", "t", "\n">>,
      <<"/", "c", "o", "p", "y", "\n">>,
      <<"/", "H", "e", "l", "p", "\n">>,
      <<"/", "x", "\n">>,
      <<"a", "\n">> }

\* outcome of the latest read of the input loop
InputOutcome(kind, line, exit, err) == [kind |-> kind, line |-> line, exit |-> exit, err |-> err]
NoInput == InputOutcome("none", <<>>, FALSE, NoCmdErr)

\* runWithDeps returns err
Finish(kind, detail) ==
    /\ pc' = "done"
    /\ runErr' = Err(kind, detail)

\* variant: the prefix is chosen by the quiet flag
PrepareIdeaByQuiet ==
    /\ pc = "idea"
    /\ conv' = AddUserMessage(conv, IF quiet THEN PipePrefix \o Idea ELSE Idea)
    /\ pc' = "request"
    /\ UNCHANGED <<cfgVars, harnessVars, streamVars, spinVars, outVars,
                   response, requests, inputsRead, lastInput, clip, runErr>>

\* userIdea, prefixed without a terminal, becomes the first user message
PrepareIdea ==
    /\ pc = "idea"
    /\ conv' = AddUserMessage(conv, IF ~tty THEN PipePrefix \o Idea ELSE Idea)
    /\ pc' = "request"
    /\ UNCHANGED <<cfgVars, harnessVars, streamVars, spinVars, outVars,
                   response, requests, inputsRead, lastInput, clip, runErr>>

\* deps.Client.ChatStreamWithSpinner(conv.Messages, tty && !cli.Quiet, ...):
\* make and start the Spinner with a terminal, then enter ChatStream; the
\* backend's answer to this request is fixed here
SendRequest ==
    /\ pc = "request"
    /\ Len(requests) < MaxRequests
    /\ requests' = Append(requests, conv)
    /\ spinner' = IF tty /\ ~quiet THEN SpinnerStart(NewSpinnerWithTTY(TRUE)) ELSE NilSpinner
    /\ orphans' = IF spinner.task # "loop" THEN orphans
                  ELSE IF spinner.stopCh = "open" THEN [orphans EXCEPT !.open = @ + 1]
                  ELSE [orphans EXCEPT !.closed = @ + 1]
    /\ onceDone' = FALSE
    /\ stops' = 0
    /\ \E r \in RunResponses :
          /\ connectOK' = r.connectOK
          /\ status' = r.status
          /\ body' = r.body
    /\ spc' = "post"
    /\ pos' = 1
    /\ accumulated' = <<>>
    /\ calls' = <<>>
    /\ sres' = [err |-> NoErr, text |-> <<>>]
    /\ pc' = "streaming"
    /\ UNCHANGED <<cfgVars, harnessVars, outVars, ticks, term,
                   conv, response, inputsRead, lastInput, clip, runErr>>

Returned == pc = "streaming" /\ spc = "ret"

\* variant: the error is dropped and the input loop is entered
RequestFailedGoesOn ==
    /\ Returned
    /\ sres.err # NoErr
    /\ pc' = "await"
    /\ spc' = "idle"
    /\ UNCHANGED <<cfgVars, harnessVars, spinVars, outVars, connectOK, status, body, pos,
                   accumulated, calls, sres, conv, response, requests, inputsRead,
                   lastInput, clip, runErr>>

\* err != nil: the run fails
RequestFailed ==
    /\ Returned
    /\ sres.err # NoErr
    /\ Finish("llm", sres.err.detail)
    /\ spc' = "idle"
    /\ UNCHANGED <<cfgVars, harnessVars, spinVars, outVars, connectOK, status, body, pos, accumulated,
                   calls, sres, conv, response, requests, inputsRead, lastInput, clip>>

\* the newline after the stream, unless quiet
AfterStream(out) == IF ~quiet THEN Append(out, Ev("newline", <<>>)) ELSE out

\* variant: in quiet mode the whole reply is printed
PipeCompletePrintsReply ==
    /\ Returned
    /\ sres.err = NoErr
    /\ ~tty
    /\ IsComplete(sres.text)
    /\ conv' = AddAssistantMessage(conv, sres.text)
    /\ response' = sres.text
    /\ stdout' = IF quiet
                 THEN Append(AfterStream(stdout), Ev("println", sres.text))
                 ELSE AfterStream(stdout)
    /\ Finish("nil", "nil")
    /\ spc' = "idle"
    /\ UNCHANGED <<cfgVars, harnessVars, spinVars, stderr, connectOK, status, body, pos,
                   accumulated, calls, sres, requests, inputsRead, lastInput, clip>>

\* without a terminal and with a complete reply: print the block if quiet,
\* return nil
PipeComplete ==
    /\ Returned
    /\ sres.err = NoErr
    /\ ~tty
    /\ IsComplete(sres.text)
    /\ conv' = AddAssistantMessage(conv, sres.text)
    /\ response' = sres.text
    /\ stdout' = IF quiet
                 THEN Append(AfterStream(stdout), Ev("println", ExtractLastCodeBlock(sres.text)))
                 ELSE AfterStream(stdout)
    /\ Finish("nil", "nil")
    /\ spc' = "idle"
    /\ UNCHANGED <<cfgVars, harnessVars, spinVars, stderr, connectOK, status, body, pos, accumulated,
                   calls, sres, requests, inputsRead, lastInput, clip>>

\* without a terminal and with a reply that is not complete: the run fails
PipeIncomplete ==
    /\ Returned
    /\ sres.err = NoErr
    /\ ~tty
    /\ ~IsComplete(sres.text)
    /\ conv' = AddAssistantMessage(conv, sres.text)
    /\ response' = sres.text
    /\ stdout' = AfterStream(stdout)
    /\ Finish("clarification", "LLM requested clarification but stdin is not a TTY")
    /\ spc' = "idle"
    /\ UNCHANGED <<cfgVars, harnessVars, spinVars, stderr, connectOK, status, body, pos, accumulated,
                   calls, sres, requests, inputsRead, lastInput, clip>>

\* variant: the reply is not appended to the history
TurnDoneDropsReply ==
    /\ Returned
    /\ sres.err = NoErr
    /\ tty
    /\ conv' = conv
    /\ response' = sres.text
    /\ stdout' = AfterStream(stdout)
    /\ pc' = "await"
    /\ spc' = "idle"
    /\ UNCHANGED <<cfgVars, harnessVars, spinVars, stderr, connectOK, status, body, pos,
                   accumulated, calls, sres, requests, inputsRead, lastInput, clip, runErr>>

\* with a terminal: keep the reply and enter the input loop
TurnDone ==
    /\ Returned
    /\ sres.err = NoErr
    /\ tty
    /\ conv' = AddAssistantMessage(conv, sres.text)
    /\ response' = sres.text
    /\ stdout' = AfterStream(stdout)
    /\ pc' = "await"
    /\ spc' = "idle"
    /\ UNCHANGED <<cfgVars, harnessVars, spinVars, stderr, connectOK, status, body, pos, accumulated,
                   calls, sres, requests, inputsRead, lastInput, clip, runErr>>

\* at the top of the input loop, with a read left within the bound
Awaiting == pc = "await" /\ inputsRead < MaxInputs

\* the top of the input loop: the prompt is printed, then the loop waits in
\* reader.ReadString
PrintPrompt ==
    /\ Awaiting
    /\ stdout' = Append(stdout, Ev("prompt", <<>>))
    /\ pc' = "read"
    /\ UNCHANGED <<cfgVars, harnessVars, streamVars, spinVars, stderr, conv, response, requests,
                   inputsRead, lastInput, clip, runErr>>

\* the loop waits in reader.ReadString
Reading == pc = "read"

\* variant: a failed read is taken as an empty command and the loop goes on
ReadFailGoesOn ==
    /\ Reading
    /\ inputsRead' = inputsRead + 1
    /\ lastInput' = InputOutcome("fail", <<>>, FALSE, NoCmdErr)
    /\ pc' = "await"
    /\ UNCHANGED <<cfgVars, harnessVars, streamVars, spinVars, outVars, conv, response, requests,
                   clip, runErr>>

\* reader.ReadString fails (end of input, or an error): the run fails
ReadFail ==
    /\ Reading
    /\ stdout' = stdout
    /\ inputsRead' = inputsRead + 1
    /\ lastInput' = InputOutcome("fail", <<>>, FALSE, NoCmdErr)
    /\ Finish("input", "failed to read input")
    /\ UNCHANGED <<cfgVars, harnessVars, streamVars, spinVars, stderr, conv, response, requests, clip>>

\* the dispatcher gets as far as clipboard.Write with a writer that has a
\* command: CopyToClipboard starts the command and waits for it to exit
RunsClipboardCommand(userInput) ==
    /\ parseCommand(userInput) = <<"c", "o", "p", "y">>
    /\ response # <<>>
    /\ ExtractLastCodeBlock(response) # <<>>
    /\ clipboard \in {"cmdok", "cmdfail"}

\* variant: the command's error is printed on deps.Stdout
CommandStepErrorOnStdout(line, r, exits, newConv) ==
    /\ lastInput' = InputOutcome("command", line, r.exit, r.err)
    /\ stdout' = (stdout \o r.out) \o (IF r.err # NoCmdErr THEN <<r.err>> ELSE <<>>)
    /\ stderr' = stderr
    /\ conv' = newConv
    /\ IF exits THEN Finish("nil", "nil") ELSE pc' = "await" /\ UNCHANGED runErr
    /\ UNCHANGED <<cfgVars, harnessVars, streamVars, spinVars, response, requests>>

\* the dispatcher has returned r for the command line: what it printed is on
\* deps.Stdout, its error goes to deps.Stderr; exits is whether the loop
\* returns (else it goes back to its top), newConv the history it leaves
CommandStep(line, r, exits, newConv) ==
    /\ lastInput' = InputOutcome("command", line, r.exit, r.err)
    /\ stdout' = stdout \o r.out
    /\ stderr' = IF r.err # NoCmdErr THEN Append(stderr, r.err) ELSE stderr
    /\ conv' = newConv
    /\ IF exits THEN Finish("nil", "nil") ELSE pc' = "await" /\ UNCHANGED runErr
    /\ UNCHANGED <<cfgVars, harnessVars, streamVars, spinVars, response, requests>>

\* variant: a command that does not exit is appended to the history
ReadCommandConsumesTurn ==
    /\ Reading
    /\ \E line \in InputLines :
          LET userInput == TrimSpace(line)
              r == HandleCommandWithClipboard(userInput, response, clipboard)
          IN  /\ IsCommand(userInput)
              /\ ~RunsClipboardCommand(userInput)
              /\ inputsRead' = inputsRead + 1
              /\ clip' = clip \o r.written
              /\ CommandStep(line, r, r.exit,
                             IF r.exit THEN conv ELSE AddUserMessage(conv, userInput))

\* variant: the loop returns whenever the command reported no error
ReadCommandExitsUnlessError ==
    /\ Reading
    /\ \E line \in InputLines :
          LET userInput == TrimSpace(line)
              r == HandleCommandWithClipboard(userInput, response, clipboard)
          IN  /\ IsCommand(userInput)
              /\ ~RunsClipboardCommand(userInput)
              /\ inputsRead' = inputsRead + 1
              /\ clip' = clip \o r.written
              /\ CommandStep(line, r, r.err = NoCmdErr, conv)

\* a line that is a command after trimming and does not run the clipboard
\* command: dispatch it, report its error on deps.Stderr, return nil if it
\* asks to exit, else stay in the input loop
ReadCommand ==
    /\ Reading
    /\ \E line \in InputLines :
          LET userInput == TrimSpace(line)
              r == HandleCommandWithClipboard(userInput, response, clipboard)
          IN  /\ IsCommand(userInput)
              /\ ~RunsClipboardCommand(userInput)
              /\ inputsRead' = inputsRead + 1
              /\ clip' = clip \o r.written
              /\ CommandStep(line, r, r.exit, conv)

\* a /copy line that runs the clipboard command: the code block is piped to
\* the command and the dispatcher waits in exec.Cmd.Run
ReadCopy ==
    /\ Reading
    /\ \E line \in InputLines :
          LET userInput == TrimSpace(line)
          IN  /\ IsCommand(userInput)
              /\ RunsClipboardCommand(userInput)
              /\ inputsRead' = inputsRead + 1
              /\ lastInput' = InputOutcome("copying", line, FALSE, NoCmdErr)
              /\ clip' = clip \o ClipboardWrite(clipboard, ExtractLastCodeBlock(response)).written
    /\ pc' = "copy"
    /\ UNCHANGED <<cfgVars, harnessVars, streamVars, spinVars, outVars, conv, response, requests,
                   runErr>>

\* the dispatcher waits for the clipboard command
Copying == pc = "copy"

\* the clipboard command has exited: the dispatcher prints the confirmation
\* and asks to exit, or returns the clipboard error, which the loop reports
\* on deps.Stderr before it goes back to its top
CopyReturns ==
    /\ Copying
    /\ LET r == HandleCommandWithClipboard(TrimSpace(lastInput.line), response, clipboard)
       IN  CommandStep(lastInput.line, r, r.exit, conv)
    /\ UNCHANGED <<inputsRead, clip>>

\* any other line: it becomes the next user message and the loop calls the
\* backend again
ReadMessage ==
    /\ Reading
    /\ \E line \in InputLines :
          LET userInput == TrimSpace(line)
          IN  /\ ~IsCommand(userInput)
              /\ inputsRead' = inputsRead + 1
              /\ lastInput' = InputOutcome("message", line, FALSE, NoCmdErr)
              /\ conv' = AddUserMessage(conv, userInput)
    /\ pc' = "request"
    /\ UNCHANGED <<cfgVars, harnessVars, streamVars, spinVars, outVars, response, requests, clip,
                   runErr>>

RunNext ==
    \/ PrepareIdea \/ SendRequest
    \/ RequestFailed \/ PipeComplete \/ PipeIncomplete \/ TurnDone
    \/ PrintPrompt \/ ReadFail \/ ReadCommand \/ ReadCopy \/ CopyReturns \/ ReadMessage

SpinnerNext == SpinnerTick \/ SpinnerClear \/ OrphanTick \/ OrphanClear

\* the state of runWithDeps after NewConversation(deps.SystemPrompt)
Init ==
    /\ tty \in BOOLEAN
    /\ quiet \in BOOLEAN
    /\ clipboard \in {"nil", "nocmd", "cmdok", "cmdfail"}
    /\ caller = "run"
    /\ cbFailAt = 0
    /\ connectOK = TRUE /\ status = StatusOK /\ body = <<>>
    /\ spc = "idle"
    /\ pos = 1
    /\ accumulated = <<>>
    /\ calls = <<>>
    /\ sres = [err |-> NoErr, text |-> <<>>]
    /\ IdleSpinner
    /\ pc = "idea"
    /\ conv = NewConversation(SystemPrompt)
    /\ response = <<>>
    /\ requests = <<>>
    /\ inputsRead = 0
    /\ lastInput = NoInput
    /\ clip = <<>>
    /\ runErr = Err("running", "running")
    /\ stdout = <<>>
    /\ stderr = <<>>
    /\ IdleText
    /\ IdleStoppers

\* the callback runWithDeps passes returns nil always, so no step of the run
\* is a failing callback
Next == RunNext \/ RunStreamSteps \/ SpinnerNext

Spec == Init /\ [][Next]_vars

\* ------------------------------------------- properties of the transport
\* index of the first line at which the read loop must end (sentinel,
\* undecodable payload or read failure); Len(b) + 1 when there is none
FirstEnd(b) ==
    LET ends == {i \in 1..Len(b) : b[i].kind \in {"done", "donecut", "badjson", "readerr"}}
    IN  IF ends = {} THEN Len(b) + 1 ELSE CHOOSE i \in ends : \A j \in ends : i <= j

\* a frame that carries a non-empty content delta
IsDeltaFrame(l) == l.kind = "chunk" /\ l.choices > 0 /\ l.content # <<>>

RECURSIVE DeltasOf(_)
\* the non-empty deltas a sequence of lines carries, in wire order
DeltasOf(ls) ==
    IF ls = <<>> THEN <<>>
    ELSE (IF IsDeltaFrame(Head(ls)) THEN <<Head(ls).content>> ELSE <<>>) \o DeltasOf(Tail(ls))

\* the deltas on the wire before the read loop must end
WireDeltas == DeltasOf(SubSeq(body, 1, FirstEnd(body) - 1))

\* the response was received with status 200
Received == connectOK /\ status = StatusOK

\* the body is delta frames (with blank delimiter lines) up to an end sentinel
DeltaStream ==
    /\ FirstEnd(body) <= Len(body)
    /\ body[FirstEnd(body)].kind = "done"
    /\ \A i \in 1..(FirstEnd(body) - 1) : IsDeltaFrame(body[i]) \/ body[i].kind = "blank"

\* the callback does not fail on any delta of the stream
CallbackHolds == cbFailAt = 0 \/ cbFailAt > Len(WireDeltas)

\* C1: for a stream of n non-empty delta frames d1..dn followed by the end
\* sentinel, ChatStream succeeds, the callback was invoked exactly n times
\* with d1..dn in wire order, and the returned text is d1 + ... + dn.
C1_DeltasInOrder ==
    (caller = "harness" /\ spc = "ret" /\ Received /\ DeltaStream /\ CallbackHolds)
        => /\ sres.err = NoErr
           /\ calls = WireDeltas
           /\ sres.text = Flatten(WireDeltas)

\* a stream of two different deltas and the sentinel has been returned
C1_Witness ==
    /\ caller = "harness" /\ spc = "ret" /\ Received /\ DeltaStream /\ CallbackHolds
    /\ Len(WireDeltas) >= 2
    /\ WireDeltas[1] # WireDeltas[2]

\* the callback fails on the k-th delta, and the stream carries at least k
CallbackFailsAtK == cbFailAt > 0 /\ cbFailAt <= Len(WireDeltas)

\* index of the line that carries the k-th non-empty delta
DeltaLine(k) ==
    CHOOSE i \in 1..Len(body) :
        IsDeltaFrame(body[i]) /\ Len(DeltasOf(SubSeq(body, 1, i))) = k

\* C2: if the callback fails on the k-th non-empty delta, ChatStream stops
\* reading there and returns exactly that error with no text, and the
\* callback was invoked exactly k times, on the first k deltas.
C2_CallbackError ==
    (caller = "harness" /\ spc = "ret" /\ Received /\ CallbackFailsAtK)
        => /\ sres.err = CallbackErr
           /\ sres.text = <<>>
           /\ Len(calls) = cbFailAt
           /\ calls = SubSeq(WireDeltas, 1, cbFailAt)
           /\ pos = DeltaLine(cbFailAt)

\* the callback failed on the second delta while a third one was on the wire
C2_Witness ==
    /\ caller = "harness" /\ spc = "ret" /\ Received
    /\ cbFailAt = 2
    /\ Len(WireDeltas) >= 3
    /\ sres.err = CallbackErr

\* the first line at which the loop must end is an undecodable data frame,
\* and the callback has not failed before it
MalformedFrameReached ==
    /\ FirstEnd(body) <= Len(body)
    /\ body[FirstEnd(body)].kind = "badjson"
    /\ CallbackHolds

\* C3: a data frame that is neither the sentinel nor valid JSON makes
\* ChatStream fail with a parse error wherever it stands in the stream: no
\* later frame is processed, the callback is not invoked after it and no
\* text is returned.
C3_MalformedFrame ==
    (caller = "harness" /\ spc = "ret" /\ Received /\ MalformedFrameReached)
        => /\ sres.err.kind = "parse"
           /\ sres.text = <<>>
           /\ calls = WireDeltas
           /\ pos = FirstEnd(body)

\* a malformed frame that follows a delta and precedes another was rejected
C3_Witness ==
    /\ caller = "harness" /\ spc = "ret" /\ Received /\ MalformedFrameReached
    /\ FirstEnd(body) = 2
    /\ Len(WireDeltas) = 1
    /\ Len(body) = 3 /\ IsDeltaFrame(body[3])
    /\ sres.err.kind = "parse"

\* the HTTP status is outside 200..299
Non2xx == status < 200 \/ status > 299

\* C4: a response whose status is not 2xx makes ChatStream return a
\* transport error, and the callback is never invoked, whatever the body.
C4_Non2xx ==
    (caller = "harness" /\ connectOK /\ Non2xx)
        => /\ calls = <<>>
           /\ spc # "scan"
           /\ spc = "ret" => (sres.err.kind = "http" /\ sres.text = <<>>)

\* a 500 response whose body holds a well-formed delta stream was refused
C4_Witness ==
    /\ caller = "harness" /\ spc = "ret" /\ connectOK /\ status = 500
    /\ DeltaStream /\ Len(WireDeltas) >= 1
    /\ sres.err.kind = "http"


\* ------------------------------------------------ properties of the run
\* the step reads an input line and starts the clipboard command, for which
\* the dispatcher then waits
StartsCopy ==
    /\ caller = "run" /\ pc = "read"
    /\ inputsRead' = inputsRead + 1
    /\ pc' = "copy"

\* the step ends the handling of an input: a read whose outcome is there at
\* once, or the return of the clipboard command
EndsInput ==
    /\ caller = "run"
    /\ \/ pc = "read" /\ inputsRead' = inputsRead + 1 /\ pc' # "copy"
       \/ pc = "copy" /\ pc' # "copy"

\* from the read of a line to the end of its handling the run leaves
\* history, reply, requests and its two outputs alone
WaitIsQuiet ==
    (StartsCopy \/ (caller = "run" /\ pc = "copy" /\ pc' = "copy"))
        => /\ conv' = conv /\ response' = response /\ requests' = requests
           /\ spc' = spc /\ outVars' = outVars /\ runErr' = runErr

\* the step ends the handling of one input line (after trimming, non-empty)
ReadsLine ==
    /\ EndsInput
    /\ TrimSpace(lastInput'.line) # <<>>

\* the command name of a line: trimmed, slash removed, lower-cased
NameOf(line) == ToLower(Tail(TrimSpace(line)))

\* the step handles a line that is a slash command
ReadsCommandLine == ReadsLine /\ Head(TrimSpace(lastInput'.line)) = "/"

ExitNames == {<<"b", "y", "e">>, <<"q", "u", "i", "t">>, <<"e", "x", "i", "t">>}
CopyName == <<"c", "o", "p", "y">>

\* a copy entered now finds a reply with a code block and a sink whose write
\* reports success
CopySucceeds ==
    /\ response # <<>>
    /\ ExtractLastCodeBlock(response) # <<>>
    /\ clipboard \in {"nocmd", "cmdok"}

\* C5: the history is never empty and its first message is the system
\* message holding the configured system prompt, at every point of a run.
C5_SystemFirst ==
    caller = "run" =>
        /\ Len(conv) >= 1
        /\ conv[1] = [role |-> "system", content |-> SystemPrompt]
        /\ \A i \in 2..Len(conv) : conv[i].role # "system"

\* two turns have been completed and a third user message was added
C5_Witness ==
    /\ caller = "run" /\ Len(conv) >= 5
    /\ conv[1].role = "system"
    /\ conv[4].role = "user"

\* C6: handling an input line that starts with "/" issues no backend
\* request: the requests made are the same before the line is read and when
\* the next input is awaited or the run has ended.
C6_CommandNoRequest ==
    /\ [][(ReadsLine /\ Head(lastInput'.line) = "/")
             => /\ requests' = requests
                /\ spc' = spc
                /\ pc' \in {"await", "done"}]_vars
    /\ [][WaitIsQuiet]_vars

\* an unknown command was rejected and the loop awaits the next input with
\* one request made
C6_Witness ==
    /\ caller = "run" /\ pc = "await"
    /\ lastInput.kind = "command"
    /\ lastInput.err.msg = "Unknown command"
    /\ Len(requests) = 1

\* C7: a command ends the input loop iff it is bye, quit or exit, or it is
\* copy and the copy succeeded; any other command returns to awaiting input.
C7_ExitIff ==
    [][ReadsCommandLine
          => IF \/ NameOf(lastInput'.line) \in ExitNames
                \/ (NameOf(lastInput'.line) = CopyName /\ CopySucceeds)
             THEN pc' = "done" /\ runErr'.kind = "nil"
             ELSE pc' = "await" /\ runErr' = runErr]_vars

\* a command failed and returned to the loop, then an upper-case quit with
\* spaces around it ended the run
C7_Witness ==
    /\ caller = "run" /\ pc = "done" /\ runErr.kind = "nil"
    /\ Len(stderr) = 1
    /\ lastInput.line = <<" ", "/", "Q", "U", "I", "T", " ", "\n">>

\* C8: help, an unknown command and a failed copy consume no turn: history
\* and latest reply are unchanged and the loop awaits the next input.
C8_NoTurnConsumed ==
    /\ [][(/\ ReadsCommandLine
           /\ NameOf(lastInput'.line) \notin ExitNames
           /\ ~(NameOf(lastInput'.line) = CopyName /\ CopySucceeds))
             => /\ conv' = conv
                /\ response' = response
                /\ requests' = requests
                /\ pc' = "await"]_vars
    /\ [][(StartsCopy /\ ~CopySucceeds)
             => (conv' = conv /\ response' = response /\ requests' = requests)]_vars

\* after a failed command a message was typed, and the second request
\* carried system, idea, reply and that message only
C8_Witness ==
    /\ caller = "run"
    /\ Len(stderr) = 1
    /\ Len(requests) = 2
    /\ Len(requests[2]) = 4
    /\ requests[2][4] = [role |-> "user", content |-> <<"a">>]

\* a fence marker starts at offset i of t
MarkerAt(t, i) ==
    /\ i >= 0 /\ i + 3 <= Len(t)
    /\ t[i + 1] = Tick /\ t[i + 2] = Tick /\ t[i + 3] = Tick

\* t holds a fenced code block: an opening marker and a closing marker after it
HasFencedBlock(t) ==
    \E i, j \in 0..Len(t) : MarkerAt(t, i) /\ MarkerAt(t, j) /\ j >= i + 3

\* the last character of t that is not white space is a question mark
EndsWithQuestionMark(t) ==
    \E i \in 1..Len(t) : t[i] = "?" /\ \A j \in (i + 1)..Len(t) : IsSpace(t[j])

\* a reply that holds a fence and, trimmed, does not end with a question mark
CompleteReply(t) ==
    /\ Contains(t, Fence)
    /\ TrimSpace(t) = <<>> \/ TrimSpace(t)[Len(TrimSpace(t))] # "?"

\* the first reply of the run has arrived
FirstReply == caller = "run" /\ Len(conv) >= 3 /\ conv[3].role = "assistant"

\* C9: without a terminal, a complete first reply ends the run successfully
\* after exactly one backend request and without reading any input.
C9_PipeComplete ==
    (FirstReply /\ ~tty /\ CompleteReply(conv[3].content))
        => /\ pc = "done"
           /\ runErr.kind = "nil"
           /\ Len(requests) = 1
           /\ inputsRead = 0

\* a quiet run without a terminal ended successfully on a complete reply
C9_Witness ==
    /\ FirstReply /\ ~tty /\ quiet
    /\ CompleteReply(conv[3].content)
    /\ pc = "done" /\ runErr.kind = "nil"

\* C10: without a terminal, a first reply that is not complete (it holds no
\* fenced code block, or its trimmed text ends with a question mark) ends
\* the run with a failure after exactly one backend request, without
\* reading input and without a second request.
C10_PipeIncomplete ==
    (FirstReply /\ ~tty
        /\ ~(HasFencedBlock(conv[3].content) /\ ~EndsWithQuestionMark(conv[3].content)))
        => /\ pc = "done"
           /\ runErr.kind = "clarification"
           /\ Len(requests) = 1
           /\ inputsRead = 0

\* ------------------------------------------------ text test (slash.go tests)
\* what the texts under test are made of
Pieces == {Fence, <<Tick>>, <<"a">>, <<"\n">>, <<"?">>}

Texts == {Flatten(ps) : ps \in UNION {[1..n -> Pieces] : n \in 0..MaxPieces}}

\* a test calls IsComplete, then ExtractLastCodeBlock, on a text of its choice
InitText ==
    /\ tty = FALSE /\ quiet = FALSE /\ clipboard = "nil"
    /\ caller = "text"
    /\ cbFailAt = 0
    /\ connectOK = TRUE /\ status = StatusOK /\ body = <<>>
    /\ spc = "idle"
    /\ pos = 1
    /\ accumulated = <<>>
    /\ calls = <<>>
    /\ sres = [err |-> NoErr, text |-> <<>>]
    /\ IdleSpinner
    /\ IdleRun
    /\ IdleStoppers
    /\ txt \in Texts
    /\ tpc = "complete"
    /\ tres = [complete |-> FALSE, block |-> <<>>]

CallIsComplete ==
    /\ caller = "text"
    /\ tpc = "complete"
    /\ tres' = [tres EXCEPT !.complete = IsComplete(txt)]
    /\ tpc' = "extract"
    /\ UNCHANGED <<cfgVars, txt, stopper, started, panicked, streamVars, spinVars,
                   runVars, outVars>>

CallExtractLastCodeBlock ==
    /\ caller = "text"
    /\ tpc = "extract"
    /\ tres' = [tres EXCEPT !.block = ExtractLastCodeBlock(txt)]
    /\ tpc' = "done"
    /\ UNCHANGED <<cfgVars, txt, stopper, started, panicked, streamVars, spinVars,
                   runVars, outVars>>

TextNext == CallIsComplete \/ CallExtractLastCodeBlock

SpecText == InitText /\ [][TextNext]_vars

\* ---------------------------------------- properties of the text functions
\* C11: IsComplete(text) is true exactly when the text holds a fenced code
\* block and, trimmed of white space, does not end with a question mark.
C11_IsCompleteIff ==
    (caller = "text" /\ tpc # "complete") =>
        (tres.complete <=> (HasFencedBlock(txt) /\ ~EndsWithQuestionMark(txt)))

\* offset of the last marker of t
LastMarker(t) ==
    CHOOSE i \in 0..Len(t) : MarkerAt(t, i) /\ \A j \in 0..Len(t) : MarkerAt(t, j) => j <= i

\* offset of the marker that opens the last block: the last one that ends
\* at or before the start of the last marker
OpeningMarker(t) ==
    CHOOSE i \in 0..Len(t) :
        /\ MarkerAt(t, i) /\ i + 3 <= LastMarker(t)
        /\ \A j \in 0..Len(t) : (MarkerAt(t, j) /\ j + 3 <= LastMarker(t)) => j <= i

\* what lies between the opening marker and the last marker
Between(t) ==
    [k \in 1..(LastMarker(t) - OpeningMarker(t) - 3) |-> t[OpeningMarker(t) + 3 + k]]

HasNewline(s) == \E i \in 1..Len(s) : s[i] = "\n"

\* what follows the first line of s
AfterFirstLine(s) ==
    LET nl == CHOOSE i \in 1..Len(s) : s[i] = "\n" /\ \A j \in 1..(i - 1) : s[j] # "\n"
    IN  [k \in 1..(Len(s) - nl) |-> s[nl + k]]

\* C12 as stated: ExtractLastCodeBlock returns what follows the opening
\* marker's line up to the start of the last marker, and the empty text
\* when the text has fewer than two markers. With no line break between the
\* two markers nothing follows the opening marker's line.
C12_AfterOpeningLine ==
    (caller = "text" /\ tpc = "done") =>
        tres.block = IF ~HasFencedBlock(txt) THEN <<>>
                     ELSE IF HasNewline(Between(txt)) THEN AfterFirstLine(Between(txt))
                     ELSE <<>>

\* C12 (amended): ExtractLastCodeBlock returns the content of the last
\* fenced block only: what follows the opening marker's line up to the
\* start of the last marker, trailing line breaks kept, or everything
\* between the two markers when no line break lies between them; the empty
\* text when the text has fewer than two markers.
C12_ExtractLastBlock ==
    (caller = "text" /\ tpc = "done") =>
        tres.block = IF ~HasFencedBlock(txt) THEN <<>>
                     ELSE IF HasNewline(Between(txt)) THEN AfterFirstLine(Between(txt))
                     ELSE Between(txt)

\* a block with a language tag and a trailing line break has been extracted
C12_Witness ==
    /\ caller = "text" /\ tpc = "done"
    /\ txt = Fence \o <<"a", "\n", "a", "\n">> \o Fence
    /\ tres.block = <<"a", "\n">>

\* --------------------------------------------------- properties of /copy
\* the inner text of the last fenced block of t
InnerText(t) ==
    IF ~HasFencedBlock(t) THEN <<>>
    ELSE IF HasNewline(Between(t)) THEN AfterFirstLine(Between(t))
    ELSE Between(t)

\* the step handles a /copy line
ReadsCopy == ReadsCommandLine /\ NameOf(lastInput'.line) = CopyName

Confirmation == Ev("Copied to clipboard", <<>>)

\* the step reports the command error msg and stays in the input loop
CopyFailsWith(msg) ==
    /\ lastInput'.err = CmdErr(msg, <<>>)
    /\ stderr' = Append(stderr, CmdErr(msg, <<>>))
    /\ stdout' = stdout
    /\ pc' = "await"
    /\ runErr' = runErr

\* C13: a /copy entered after a reply that holds a code block, with a sink
\* whose write succeeds, writes the sink exactly once, with exactly the inner
\* text of the last code block of the latest reply; the confirmation is
\* printed and the loop ends with success.
C13_CopySuccess ==
    /\ [][(StartsCopy /\ clipboard = "cmdok") =>
             /\ NameOf(lastInput'.line) = CopyName
             /\ clip' = Append(clip, InnerText(response))
             /\ outVars' = outVars]_vars
    /\ [][(caller = "run" /\ pc = "copy") => clip' = clip]_vars
    /\ [][(ReadsCopy /\ InnerText(response) # <<>> /\ clipboard = "cmdok") =>
             /\ pc = "copy"
             /\ stdout' = Append(stdout, Confirmation)
             /\ stderr' = stderr
             /\ pc' = "done"
             /\ runErr' = Err("nil", "nil")]_vars

\* a /copy has put the inner text of the reply's block, with its trailing
\* line break, on the clipboard and ended the run
C13_Witness ==
    /\ caller = "run" /\ pc = "done" /\ clipboard = "cmdok"
    /\ lastInput.kind = "command" /\ NameOf(lastInput.line) = CopyName
    /\ clip = <<DText>>
    /\ runErr = Err("nil", "nil")

\* C14: a /copy fails with the no-response error when there is no reply
\* text, otherwise with the no-code-block error when extraction yields the
\* empty text, otherwise with the clipboard-not-available error when the
\* dispatcher has no sink or the sink's write fails; in the first two cases
\* the sink is not written.
C14_CopyFailures ==
    /\ [][ReadsCopy =>
          IF response = <<>>
          THEN CopyFailsWith("No response to copy from") /\ clip' = clip
          ELSE IF ExtractLastCodeBlock(response) = <<>>
          THEN CopyFailsWith("No code block to copy") /\ clip' = clip
          ELSE (clipboard \in {"nil", "cmdfail"}) =>
                   CopyFailsWith("Clipboard not available")]_vars
    /\ [][(StartsCopy /\ clipboard = "cmdfail") => outVars' = outVars]_vars

\* a /copy on an empty reply has been refused with the no-response error
C14_Witness ==
    /\ caller = "run" /\ pc = "await"
    /\ lastInput.kind = "command" /\ NameOf(lastInput.line) = CopyName
    /\ response = <<>>
    /\ lastInput.err = CmdErr("No response to copy from", <<>>)
    /\ clip = <<>>

\* C15: with no clipboard command configured and none detected, a /copy
\* after a reply with a code block fails with the clipboard-not-available
\* error, prints no confirmation and does not end the loop.
C15_NoSinkFails ==
    [][(ReadsCopy /\ InnerText(response) # <<>> /\ clipboard = "nocmd") =>
          CopyFailsWith("Clipboard not available")]_vars

\* ---------------------------------------------- Spinner test (llm_test.go)
\* the indicator task is alive and has not been told to stop
Running(s) == s.task = "loop" /\ s.stopCh = "open"

\* a test makes a Spinner, calls Start at most once at any moment, and
\* lets each caller call Stop up to MaxStops times in a row
InitSpinner ==
    /\ tty \in BOOLEAN /\ quiet = FALSE /\ clipboard = "nil"
    /\ caller = "spinner"
    /\ cbFailAt = 0
    /\ connectOK = TRUE /\ status = StatusOK /\ body = <<>>
    /\ spc = "idle"
    /\ pos = 1
    /\ accumulated = <<>>
    /\ calls = <<>>
    /\ sres = [err |-> NoErr, text |-> <<>>]
    /\ spinner = NewSpinnerWithTTY(tty)
    /\ onceDone = FALSE
    /\ stops = 0
    /\ orphans = [open |-> 0, closed |-> 0]
    /\ ticks = 0
    /\ term = <<>>
    /\ IdleRun
    /\ IdleText
    /\ IdleStoppers

\* s.Start()
TestStart ==
    /\ caller = "spinner"
    /\ ~panicked
    /\ ~started
    /\ started' = TRUE
    /\ spinner' = SpinnerStart(spinner)
    /\ UNCHANGED <<cfgVars, txt, tpc, tres, stopper, panicked, streamVars, onceDone,
                   stops, orphans, ticks, term, runVars, outVars>>

\* caller c enters Stop
EntersStop(c) ==
    /\ caller = "spinner"
    /\ ~panicked
    /\ stopper[c].at = "idle"
    /\ stopper[c].done < MaxStops

\* Stop, case <-s.stopCh: already stopped, return
StopAlready ==
    \E c \in Callers :
        /\ EntersStop(c)
        /\ spinner.stopCh = "closed"
        /\ stopper' = [stopper EXCEPT ![c].done = @ + 1,
                                      ![c].running = @ /\ Running(spinner)]
        /\ UNCHANGED <<cfgVars, txt, tpc, tres, started, panicked, streamVars,
                       spinVars, runVars, outVars>>

\* variant: Stop closes the channel without looking at it first
StopDefaultUnchecked ==
    \E c \in Callers :
        /\ EntersStop(c)
        /\ stopper' = [stopper EXCEPT ![c].at = "default",
                                      ![c].running = @ /\ Running(spinner)]
        /\ UNCHANGED <<cfgVars, txt, tpc, tres, started, panicked, streamVars,
                       spinVars, runVars, outVars>>

\* Stop, default: the channel is not closed, the caller goes on to close it
StopDefault ==
    \E c \in Callers :
        /\ EntersStop(c)
        /\ spinner.stopCh = "open"
        /\ stopper' = [stopper EXCEPT ![c].at = "default",
                                      ![c].running = @ /\ Running(spinner)]
        /\ UNCHANGED <<cfgVars, txt, tpc, tres, started, panicked, streamVars,
                       spinVars, runVars, outVars>>

\* close(s.stopCh) on the open channel
StopClose ==
    \E c \in Callers :
        /\ caller = "spinner"
        /\ ~panicked
        /\ stopper[c].at = "default"
        /\ spinner.stopCh = "open"
        /\ spinner' = [spinner EXCEPT !.stopCh = "closed"]
        /\ stopper' = [stopper EXCEPT ![c].at = "idle", ![c].done = @ + 1]
        /\ UNCHANGED <<cfgVars, txt, tpc, tres, started, panicked, streamVars, onceDone,
                       stops, orphans, ticks, term, runVars, outVars>>

\* close(s.stopCh) on a channel another caller closed meanwhile: the
\* runtime panics (close of closed channel)
StopPanic ==
    \E c \in Callers :
        /\ caller = "spinner"
        /\ ~panicked
        /\ stopper[c].at = "default"
        /\ spinner.stopCh = "closed"
        /\ panicked' = TRUE
        /\ UNCHANGED <<cfgVars, txt, tpc, tres, stopper, started, streamVars,
                       spinVars, runVars, outVars>>

SpinnerTestNext ==
    \/ TestStart \/ StopAlready \/ StopDefault \/ StopClose \/ StopPanic
    \/ SpinnerTick \/ SpinnerClear

SpecSpinner == InitSpinner /\ [][SpinnerTestNext]_vars

\* the same test with the task scheduled: once stopCh is closed the case
\* <-s.stopCh of the task's select is ready at every iteration, so the task
\* takes it in the end
SpecSpinnerFair == SpecSpinner /\ WF_vars(SpinnerClear)

\* ------------------------------------------- properties of the indicator
\* how many writes of kind k the indicator tasks have made
Count(t, k) == Cardinality({i \in 1..Len(t) : t[i].k = k})

\* Stop has been called by the first caller only: its calls are in a row
OnlyFirstCaller == \A c \in Callers \ {1} : stopper[c] = NoCalls

\* C16: calling Stop on a never-started indicator, or any number of times
\* in a row, started or not, never panics and never blocks, and every call
\* after the first changes nothing.
C16_StopIdempotent ==
    [][(caller = "spinner" /\ OnlyFirstCaller') =>
          /\ ~panicked'
          /\ (stopper[1].at = "default" => ENABLED StopClose)
          /\ (stopper'[1] # stopper[1] /\ stopper[1].done >= 1) =>
                 /\ stopper[1].at = "idle" /\ stopper'[1].at = "idle"
                 /\ spinner' = spinner
                 /\ term' = term]_vars

\* Stop has been called twice in a row on an indicator never started
C16_Witness ==
    /\ caller = "spinner" /\ OnlyFirstCaller
    /\ ~started
    /\ stopper[1].done >= 2 /\ stopper[1].at = "idle"
    /\ spinner.stopCh = "closed"
    /\ ~panicked

\* C17: when several callers call Stop concurrently on a running
\* indicator, no call panics and the line is cleared no more than once.
C17_ConcurrentStop ==
    (caller = "spinner" /\ \A c \in Callers : stopper[c].running) =>
        (~panicked /\ Count(term, "erase") <= 1)

\* the state of the indicator
StateOf(s) ==
    IF s.stopCh = "closed" THEN "Stopped"
    ELSE IF s.task = "loop" THEN "Running" ELSE "Idle"

\* C20: the indicator moves only Idle to Running (Start, with a terminal),
\* Idle to Stopped and Running to Stopped; once stopped it stays stopped,
\* also across a later Start, and no animation frame is drawn again.
C20_StoppedTerminal ==
    [][caller = "spinner" =>
          /\ \/ StateOf(spinner') = StateOf(spinner)
             \/ StateOf(spinner) = "Idle" /\ StateOf(spinner') = "Running" /\ tty
             \/ StateOf(spinner) # "Stopped" /\ StateOf(spinner') = "Stopped"
          /\ StateOf(spinner) = "Stopped" =>
                 Count(term', "frame") = Count(term, "frame")]_vars

\* C18: within one turn Stop is performed exactly once, on the first
\* non-empty delta, however many deltas arrive; no Stop before it, and
\* every later delta leaves the indicator as it is.
C18_StopOnce ==
    (caller = "run" /\ spinner.made) =>
        /\ stops = IF calls # <<>> THEN 1 ELSE 0
        /\ spinner.stopCh = IF calls # <<>> THEN "closed" ELSE "open"

\* three deltas have been delivered in a turn with an indicator
C18_Witness ==
    /\ caller = "run" /\ spinner.made
    /\ Len(calls) >= 3
    /\ stops = 1

\* the callback of runWithDeps has returned from the first delta of the call
FirstDeltaWritten == calls # <<>> /\ ~(Len(calls) = 1 /\ spc = "token")

\* C19: once the indicator is stopped in a turn, its task writes nothing,
\* neither a frame nor the line erase, after the first delta of the turn
\* has been written (no task of an earlier turn being left).
C19_QuietAfterFirstDelta ==
    [][(/\ caller = "run" /\ pc = "streaming"
        /\ stops = 1 /\ FirstDeltaWritten
        /\ orphans.open + orphans.closed = 0) => term' = term]_vars

\* C21: without a terminal Start is a no-op: no task is created and the
\* indicator writes nothing to the terminal, before or after Stop.
C21_StartNoTerminal ==
    (caller = "spinner" /\ ~tty) => (spinner.task = "none" /\ term = <<>>)

\* Start, then a completed Stop, on an indicator without a terminal
C21_Witness ==
    /\ caller = "spinner" /\ ~tty
    /\ started
    /\ \E c \in Callers : stopper[c].done >= 1
    /\ spinner.stopCh = "closed"
    /\ spinner.task = "none" /\ term = <<>>

\* ------------------------------------------------ properties of the run
\* the request in flight has returned an error, or the run has ended on one
RequestHasFailed ==
    \/ Returned /\ sres.err # NoErr
    \/ pc = "done" /\ runErr.kind = "llm"

\* C22: any failure of a backend request (connection failure, non-2xx
\* status, malformed frame, read error) ends the whole run with a failure:
\* no further request is made, no assistant message is appended for the
\* failed request and no input is read afterwards.
C22_FailureIsFatal ==
    [][(caller = "run" /\ RequestHasFailed) =>
          /\ pc' = "done" \/ (pc' = pc /\ RequestHasFailed')
          /\ pc' = "done" => runErr' = Err("llm", sres.err.detail)
          /\ requests' = requests
          /\ conv' = conv
          /\ inputsRead' = inputsRead]_vars

\* the second request of a run met a malformed frame after a delta: the
\* run has ended on it, the history ends with the user message of that
\* request
C22_Witness ==
    /\ caller = "run" /\ pc = "done"
    /\ runErr.kind = "llm" /\ sres.err.kind = "parse"
    /\ Len(requests) = 2
    /\ calls # <<>>
    /\ conv = requests[2]
    /\ inputsRead = 1

\* --------------------------------------------- command test (slash.go tests)
ToUpperChar(c) ==
    IF \E i \in 1..Len(LowerLetters) : LowerLetters[i] = c
    THEN UpperLetters[CHOOSE i \in 1..Len(LowerLetters) : LowerLetters[i] = c]
    ELSE c

\* the names the test types, each in lower case, in upper case and capitalised
CommandNames ==
    { <<"b", "y", "e">>, <<"q", "u", "i", "t">>, <<"e", "x", "i", "t">>,
      <<"c", "o", "p", "y">>, <<"h", "e", "l", "p">>, <<"x">> }

Casings(n) ==
    { n, [i \in 1..Len(n) |-> ToUpperChar(n[i])], <<ToUpperChar(Head(n))>> \o Tail(n) }

\* what else the test types behind the slash: nothing, a name followed by
\* more text, a name behind a space
OtherNames ==
    { <<>>, <<"c", "o", "p", "y", " ", "n", "o", "w">>,
      <<"C", "o", "p", "y", " ", "N", "o", "w">>, <<" ", "c", "o", "p", "y">> }

\* the lines the test types: a name behind a slash, with and without
\* white space around it
CommandLines ==
    { pre \o <<"/">> \o n \o post :
        pre \in {<<>>, <<" ">>}, post \in {<<>>, <<" ", "\n">>},
        n \in UNION {Casings(c) : c \in CommandNames} \cup OtherNames }

\* the last replies the test passes: none, a question, a code block
CommandReplies == {<<>>, DAsk, DOpen \o DText \o Fence}

\* what the input loop of runWithDeps does with a line, up to the dispatch:
\* strings.TrimSpace, IsCommand, HandleCommandWithClipboard
Dispatch(line, lastResponse, cb) ==
    LET userInput == TrimSpace(line)
    IN  [isCommand |-> IsCommand(userInput),
         cmd |-> parseCommand(userInput),
         r |-> HandleCommandWithClipboard(userInput, lastResponse, cb)]

\* a test dispatches two lines of its choice against the same reply and
\* the same clipboard
InitCommand ==
    /\ tty = FALSE /\ quiet = FALSE
    /\ clipboard \in {"nil", "nocmd", "cmdok", "cmdfail"}
    /\ caller = "command"
    /\ cbFailAt = 0
    /\ connectOK = TRUE /\ status = StatusOK /\ body = <<>>
    /\ spc = "idle"
    /\ pos = 1
    /\ accumulated = <<>>
    /\ calls = <<>>
    /\ sres = [err |-> NoErr, text |-> <<>>]
    /\ IdleSpinner
    /\ IdleStoppers
    /\ pc = "harness"
    /\ conv = <<>>
    /\ response \in CommandReplies
    /\ requests = <<>>
    /\ inputsRead = 0
    /\ lastInput = NoInput
    /\ clip = <<>>
    /\ runErr = Err("running", "running")
    /\ stdout = <<>>
    /\ stderr = <<>>
    /\ txt \in CommandLines \X CommandLines
    /\ tpc = "first"
    /\ tres = <<>>

DispatchFirst ==
    /\ caller = "command"
    /\ tpc = "first"
    /\ tres' = <<Dispatch(txt[1], response, clipboard)>>
    /\ tpc' = "second"
    /\ UNCHANGED <<cfgVars, txt, stopper, started, panicked, streamVars, spinVars,
                   runVars, outVars>>

DispatchSecond ==
    /\ caller = "command"
    /\ tpc = "second"
    /\ tres' = Append(tres, Dispatch(txt[2], response, clipboard))
    /\ tpc' = "done"
    /\ UNCHANGED <<cfgVars, txt, stopper, started, panicked, streamVars, spinVars,
                   runVars, outVars>>

CommandNext == DispatchFirst \/ DispatchSecond

SpecCommand == InitCommand /\ [][CommandNext]_vars

\* --------------------------------------- properties of the command parser
\* a line as the user means it: without the white space around it, in
\* lower case
Normal(line) == ToLower(TrimSpace(line))

\* C23: command recognition ignores case and surrounding white space: two
\* lines with the same trimmed, lower-cased text are dispatched to the same
\* command (copy, bye, quit, exit, help, or unknown with the same name) and
\* have the same effect.
C23_CaseAndSpace ==
    (caller = "command" /\ tpc = "done" /\ Normal(txt[1]) = Normal(txt[2])) =>
        /\ tres[1] = tres[2]
        /\ tres[1].isCommand
        /\ tres[1].cmd = Tail(Normal(txt[1]))

\* two lines that differ in case and white space have both copied the block
C23_Witness ==
    /\ caller = "command" /\ tpc = "done"
    /\ txt[1] = <<"/", "c", "o", "p", "y">>
    /\ txt[2] = <<" ", "/", "C", "O", "P", "Y", " ", "\n">>
    /\ clipboard = "cmdok"
    /\ tres[1] = tres[2]
    /\ tres[1].r.written = <<DText>>

\* -------------------------------------------------------- main (main.go)
\* exit statuses
ExitSuccess == 0
ExitConfigError == 1
ExitLLMError == 2
ExitNoModel == 3
\* os.Exit(130) of the signal task
ExitInterrupted == 130
\* the status flag.Parse exits with on a flag that is not defined
ExitFlagError == 2

\* the texts of the errors of parseArgs, run, runWithDeps and ChatStream,
\* and the texts main looks for in them
MsgMissingIdea ==
    <<"m", "i", "s", "s", "i", "n", "g", " ", "r", "e", "q", "u", "i", "r", "e", "d",
      " ", "a", "r", "g", "u", "m", "e", "n", "t", ":", " ", "<", "i", "d", "e", "a",
      ">">>
MsgConfigNotFound ==
    <<"c", "o", "n", "f", "i", "g", " ", "f", "i", "l", "e", " ", "n", "o", "t", " ",
      "f", "o", "u", "n", "d", ":", " ">>
MsgCreateIt ==
    <<"\n", "\n", "C", "r", "e", "a", "t", "e", " ", "i", "t", " ", "w", "i", "t", "h",
      ":", "\n", " ", " ", "m", "k", "d", "i", "r", " ", "-", "p", " ", "~", "/", ".",
      "c", "o", "n", "f", "i", "g", "/", "p", "r", "o", "m", "p", "t", "-", "b", "u",
      "i", "l", "d", "e", "r", "\n", " ", " ", "c", "a", "t", " ", ">", " ", "~", "/",
      ".", "c", "o", "n", "f", "i", "g", "/", "p", "r", "o", "m", "p", "t", "-", "b",
      "u", "i", "l", "d", "e", "r", "/", "c", "o", "n", "f", "i", "g", ".", "y", "a",
      "m", "l", " ", "<", "<", " ", "'", "E", "O", "F", "'", "\n", " ", " ", "m", "o",
      "d", "e", "l", ":", " ", "l", "l", "a", "m", "a", "3", ".", "2", "\n", " ", " ",
      "h", "o", "s", "t", ":", " ", "h", "t", "t", "p", ":", "/", "/", "l", "o", "c",
      "a", "l", "h", "o", "s", "t", ":", "1", "1", "4", "3", "4", "\n", " ", " ", "s",
      "y", "s", "t", "e", "m", "_", "p", "r", "o", "m", "p", "t", "_", "f", "i", "l",
      "e", ":", " ", "~", "/", ".", "c", "o", "n", "f", "i", "g", "/", "p", "r", "o",
      "m", "p", "t", "-", "b", "u", "i", "l", "d", "e", "r", "/", "p", "r", "o", "m",
      "p", "t", "-", "a", "r", "c", "h", "i", "t", "e", "c", "t", ".", "m", "d", "\n",
      " ", " ", "E", "O", "F">>
MsgInvalidConfig ==
    <<"i", "n", "v", "a", "l", "i", "d", " ", "c", "o", "n", "f", "i", "g", ":", " ">>
MsgNoModel ==
    <<"n", "o", " ", "m", "o", "d", "e", "l", " ", "s", "p", "e", "c", "i", "f", "i",
      "e", "d", "\n", "\n", "S", "e", "t", " ", "'", "m", "o", "d", "e", "l", "'", " ",
      "i", "n", " ", "c", "o", "n", "f", "i", "g", " ", "o", "r", " ", "u", "s", "e",
      " ", "-", "-", "m", "o", "d", "e", "l", " ", "f", "l", "a", "g">>
MsgPromptNotFound ==
    <<"s", "y", "s", "t", "e", "m", " ", "p", "r", "o", "m", "p", "t", " ", "n", "o",
      "t", " ", "f", "o", "u", "n", "d", ":", " ">>
MsgRequestFailed ==
    <<"L", "L", "M", " ", "r", "e", "q", "u", "e", "s", "t", " ", "f", "a", "i", "l",
      "e", "d", ":", " ">>
MsgClarification ==
    <<"L", "L", "M", " ", "r", "e", "q", "u", "e", "s", "t", "e", "d", " ", "c", "l",
      "a", "r", "i", "f", "i", "c", "a", "t", "i", "o", "n", " ", "b", "u", "t", " ",
      "s", "t", "d", "i", "n", " ", "i", "s", " ", "n", "o", "t", " ", "a", " ", "T",
      "T", "Y">>
MsgReadInput ==
    <<"f", "a", "i", "l", "e", "d", " ", "t", "o", " ", "r", "e", "a", "d", " ", "i",
      "n", "p", "u", "t", ":", " ">>
MsgConnect ==
    <<"f", "a", "i", "l", "e", "d", " ", "t", "o", " ", "c", "o", "n", "n", "e", "c",
      "t", " ", "t", "o", " ", "L", "L", "M", " ", "s", "e", "r", "v", "e", "r", ":",
      " ">>
MsgStatus ==
    <<"5", "0", "0", " ", "I", "n", "t", "e", "r", "n", "a", "l", " ", "S", "e", "r",
      "v", "e", "r", " ", "E", "r", "r", "o", "r", " ", "-", " ">>
MsgParse ==
    <<"f", "a", "i", "l", "e", "d", " ", "t", "o", " ", "p", "a", "r", "s", "e", " ",
      "s", "t", "r", "e", "a", "m", "i", "n", "g", " ", "c", "h", "u", "n", "k", ":",
      " ">>
MsgReadStream ==
    <<"e", "r", "r", "o", "r", " ", "r", "e", "a", "d", "i", "n", "g", " ", "s", "t",
      "r", "e", "a", "m", ":", " ">>
WordConfig ==
    <<"c", "o", "n", "f", "i", "g">>
WordSystemPrompt ==
    <<"s", "y", "s", "t", "e", "m", " ", "p", "r", "o", "m", "p", "t">>
WordLLM ==
    <<"L", "L", "M">>
WordConnect ==
    <<"c", "o", "n", "n", "e", "c", "t">>
WordNoModel ==
    <<"n", "o", " ", "m", "o", "d", "e", "l">>

\* the parts of an error text that come from outside: a path, the text of
\* an operating-system or parser error, the body of an error response
Details == {<<"x">>, WordConfig, WordLLM, WordNoModel}

\* the error ChatStream returns, by kind
StreamErrorText(kind, detail) ==
    CASE kind = "connect" -> MsgConnect \o detail
      [] kind = "http"    -> MsgRequestFailed \o MsgStatus \o detail
      [] kind = "parse"   -> MsgParse \o detail
      [] kind = "read"    -> MsgReadStream \o detail

\* the error runWithDeps returns, by outcome (the empty text: nil)
RunWithDepsError(outcome, detail) ==
    CASE outcome = "nil"           -> <<>>
      [] outcome = "clarification" -> MsgClarification
      [] outcome = "input"         -> MsgReadInput \o detail
      [] OTHER -> MsgRequestFailed \o StreamErrorText(outcome, detail)

\* run: load the config, pick the model, load the system prompt, then
\* runWithDeps
RunError(env) ==
    IF env.config = "missing" THEN MsgConfigNotFound \o env.detail \o MsgCreateIt
    ELSE IF env.config = "invalid" THEN MsgInvalidConfig \o env.detail
    ELSE IF ~env.cfgModel /\ ~env.cliModel THEN MsgNoModel
    ELSE IF ~env.prompt THEN MsgPromptNotFound \o env.detail
    ELSE RunWithDepsError(env.outcome, env.detail)

\* the switch of main on the text of the error
ExitCode(errStr) ==
    IF Contains(errStr, WordConfig) \/ Contains(errStr, WordSystemPrompt)
    THEN ExitConfigError
    ELSE IF Contains(errStr, WordLLM) \/ Contains(errStr, WordConnect)
    THEN ExitLLMError
    ELSE IF Contains(errStr, WordNoModel)
    THEN ExitNoModel
    ELSE 1

\* what a process may meet: arguments, config file, models, system prompt
\* file, and how runWithDeps ends
Environments ==
    [args : {"idea", "none", "version", "help", "badflag"},
     config : {"missing", "invalid", "ok"}, cfgModel : BOOLEAN,
     cliModel : BOOLEAN, prompt : BOOLEAN,
     outcome : {"nil", "connect", "http", "parse", "read", "clarification", "input"},
     detail : Details]

InitMain ==
    /\ tty = FALSE /\ quiet = FALSE /\ clipboard = "nil"
    /\ caller = "main"
    /\ cbFailAt = 0
    /\ connectOK = TRUE /\ status = StatusOK /\ body = <<>>
    /\ spc = "idle"
    /\ pos = 1
    /\ accumulated = <<>>
    /\ calls = <<>>
    /\ sres = [err |-> NoErr, text |-> <<>>]
    /\ IdleSpinner
    /\ IdleRun
    /\ IdleStoppers
    /\ txt \in Environments
    /\ tpc = "parseArgs"
    /\ tres = [err |-> <<>>, code |-> -1]

\* parseArgs: flag.Parse ends the process on -h or --help (status 0) and on
\* a flag that is not defined (status 2); then --version or -v prints the
\* version and ends it with status 0; without an idea main exits with
\* ExitConfigError
MainParseArgs ==
    /\ caller = "main"
    /\ tpc = "parseArgs"
    /\ CASE txt.args = "help"    -> tpc' = "done" /\ tres' = [tres EXCEPT !.code = ExitSuccess]
         [] txt.args = "badflag" -> tpc' = "done" /\ tres' = [tres EXCEPT !.code = ExitFlagError]
         [] txt.args = "version" -> tpc' = "done" /\ tres' = [tres EXCEPT !.code = ExitSuccess]
         [] txt.args = "none"    ->
                tpc' = "done" /\ tres' = [err |-> MsgMissingIdea, code |-> ExitConfigError]
         [] txt.args = "idea"    -> tpc' = "run" /\ tres' = tres
    /\ UNCHANGED <<cfgVars, txt, stopper, started, panicked, streamVars, spinVars,
                   runVars, outVars>>

\* err := run(ctx, cli)
MainRun ==
    /\ caller = "main"
    /\ tpc = "run"
    /\ tres' = [tres EXCEPT !.err = RunError(txt)]
    /\ tpc' = "exit"
    /\ UNCHANGED <<cfgVars, txt, stopper, started, panicked, streamVars, spinVars,
                   runVars, outVars>>

\* main returns, or exits with the status chosen from the error text
MainExit ==
    /\ caller = "main"
    /\ tpc = "exit"
    /\ tres' = [tres EXCEPT !.code = IF tres.err = <<>> THEN ExitSuccess
                                     ELSE ExitCode(tres.err)]
    /\ tpc' = "done"
    /\ UNCHANGED <<cfgVars, txt, stopper, started, panicked, streamVars, spinVars,
                   runVars, outVars>>

\* the signal task: SIGINT or SIGTERM arrives while the process runs; the
\* task cancels the context and ends the process with status 130
MainInterrupt ==
    /\ caller = "main"
    /\ tpc # "done"
    /\ tres' = [tres EXCEPT !.code = ExitInterrupted]
    /\ tpc' = "done"
    /\ UNCHANGED <<cfgVars, txt, stopper, started, panicked, streamVars, spinVars,
                   runVars, outVars>>

MainNext == MainParseArgs \/ MainRun \/ MainExit \/ MainInterrupt

SpecMain == InitMain /\ [][MainNext]_vars

\* ------------------------------------------- properties of the exit status
\* the process was ended by a signal
Interrupted == tres.code = ExitInterrupted

\* the process got as far as the model check and no model is given
NoModelGiven ==
    txt.args = "idea" /\ txt.config = "ok" /\ ~txt.cfgModel /\ ~txt.cliModel

\* C24: a run that fails because no model is specified, neither in the
\* config nor with --model, exits with status 3 (not 1, the status of
\* config errors, nor 2, the status of backend failures).
C24_NoModelExit ==
    (caller = "main" /\ tpc = "done" /\ NoModelGiven /\ ~Interrupted) => tres.code = ExitNoModel

\* --------------------------------------- more properties of the transport
\* the first line at which the read loop must end is the end sentinel, and
\* the callback has not failed before it
SentinelReached ==
    /\ FirstEnd(body) <= Len(body)
    /\ IsDoneSentinel(body[FirstEnd(body)])
    /\ CallbackHolds

\* C25: a frame whose payload is the end sentinel ends the read loop
\* without error: ChatStream returns the text accumulated so far, and the
\* frames after the sentinel are neither parsed nor delivered.
C25_SentinelEnds ==
    (caller = "harness" /\ spc = "ret" /\ Received /\ SentinelReached)
        => /\ sres.err = NoErr
           /\ sres.text = Flatten(WireDeltas)
           /\ calls = WireDeltas
           /\ pos = FirstEnd(body)

\* ------------------------------------------- more properties of the run
\* C26: the first user message is the idea unchanged when the session is
\* interactive, and the idea behind the no-clarifying-questions instruction
\* exactly when it is not; the first request carries it.
C26_FirstUserMessage ==
    (caller = "run" /\ pc # "idea") =>
        /\ Len(conv) >= 2
        /\ conv[2] = Message("user", IF tty THEN Idea ELSE PipePrefix \o Idea)
        /\ requests # <<>> => requests[1] = SubSeq(conv, 1, 2)

\* a run without a terminal has sent the prefixed idea
C26_Witness ==
    /\ caller = "run" /\ ~tty
    /\ requests # <<>>
    /\ requests[1][2] = Message("user", PipePrefix \o Idea)
    /\ PipePrefix \o Idea # Idea

\* the run has ended without a terminal on a reply that holds a fenced
\* block and does not end with a question mark
PipeRunComplete ==
    /\ caller = "run" /\ ~tty /\ pc = "done"
    /\ Len(requests) = 1 /\ sres.err = NoErr
    /\ HasFencedBlock(response) /\ ~EndsWithQuestionMark(response)

\* C27: in a quiet run without a terminal and with a complete reply,
\* normal output receives only the inner text of the last code block and a
\* newline: no streamed token and no fence marker.
C27_QuietPipeOutput ==
    (PipeRunComplete /\ quiet) =>
        /\ stdout = <<Ev("println", InnerText(response))>>
        /\ ~Contains(InnerText(response), Fence)
        /\ runErr = Err("nil", "nil")

\* a quiet run without a terminal has printed the block of its reply
C27_Witness ==
    /\ PipeRunComplete /\ quiet
    /\ response = DOpen \o DText \o Fence
    /\ stdout = <<Ev("println", DText)>>

\* the step sends a backend request
Sends == caller = "run" /\ requests' # requests

\* C28: every request carries the complete history and the history only
\* grows at its end: the messages of request k+1 are those of request k,
\* then the assistant reply request k returned, then the next input that
\* is not a command; earlier messages never change.
C28_FullHistory ==
    [][caller = "run" =>
          /\ Len(conv') >= Len(conv) /\ SubSeq(conv', 1, Len(conv)) = conv
          /\ Sends =>
                /\ requests' = Append(requests, conv)
                /\ requests # <<>> =>
                      /\ lastInput.kind = "message"
                      /\ conv = requests[Len(requests)]
                                  \o <<Message("assistant", response),
                                       Message("user", TrimSpace(lastInput.line))>>]_vars

\* a second request has been sent after a command and a message: it
\* carries the first request, the reply to it and the message
C28_Witness ==
    /\ caller = "run"
    /\ Len(requests) = 2 /\ inputsRead = 2
    /\ response # <<>>
    /\ requests[2] = requests[1] \o <<Message("assistant", requests[2][3].content),
                                       Message("user", <<"a">>)>>

\* the role the i-th message of a history must have
RoleAt(i) == IF i = 1 THEN "system" ELSE IF i % 2 = 0 THEN "user" ELSE "assistant"

\* C29: at every point of a run the messages after the system message
\* alternate user, assistant, user, ... starting with a user message; no
\* two consecutive messages have the same role.
C29_Alternation ==
    caller = "run" =>
        /\ \A i \in 2..Len(conv) : conv[i].role = RoleAt(i)
        /\ \A i \in 1..(Len(conv) - 1) : conv[i].role # conv[i + 1].role

\* a history of two full turns
C29_Witness ==
    /\ caller = "run"
    /\ Len(conv) = 5
    /\ conv[4].role = "user" /\ conv[5].role = "assistant"

\* C30: whenever ChatStreamWithSpinner returns in a run with a terminal,
\* also when the request failed or the stream carried no non-empty delta,
\* the indicator has been stopped: stopCh of the Spinner of this call is
\* closed, so no task of this call is left running.
C30_StoppedAtReturn ==
    (caller = "run" /\ tty /\ Returned) =>
        (spinner.made /\ spinner.stopCh = "closed" /\ ~Running(spinner))

\* C31: whenever IsComplete(text) is true, ExtractLastCodeBlock(text) is
\* not empty, so a run without a terminal that ends successfully always has
\* a code block to print.
C31_CompleteHasBlock ==
    (caller = "text" /\ tpc = "done" /\ tres.complete) => tres.block # <<>>

\* C32: ChatStream reports success only for a stream that the end sentinel
\* ended: when it returns without error, the read loop stopped at a
\* sentinel line of the body.
C32_SuccessNeedsSentinel ==
    (caller = "harness" /\ spc = "ret" /\ sres.err = NoErr)
        => (pos <= Len(body) /\ body[pos].kind = "done")

\* ------------------------------------ more properties of the indicator
\* Stop has been called on the running indicator and has returned: stopCh
\* is closed, the task is still in its loop, no call of Stop is under way
StoppedWhileRunning ==
    /\ caller = "spinner"
    /\ spinner.task = "loop" /\ spinner.stopCh = "closed"
    /\ \A c \in Callers : stopper[c].at = "idle"

\* the task has cleared the line once, as its last write, and has returned
ErasedAndExited ==
    /\ spinner.task = "exited"
    /\ Count(term, "erase") = 1
    /\ term[Len(term)].k = "erase"

\* C33: after Stop has been called on a running indicator, its task
\* eventually clears the status line exactly once and then terminates, and
\* it draws no frame after clearing the line.
C33_EraseThenExit ==
    /\ [](caller = "spinner" =>
            /\ Count(term, "erase") <= 1
            /\ Count(term, "erase") = 1 => ErasedAndExited)
    /\ [][(caller = "spinner" /\ spinner.task = "exited") => term' = term]_vars
    /\ (StoppedWhileRunning ~> ErasedAndExited)

\* a frame was drawn, Stop was called, the task cleared the line and returned
C33_Witness ==
    /\ caller = "spinner"
    /\ stopper[1].done >= 1
    /\ spinner.task = "exited"
    /\ term = <<Ev("frame", <<>>), Ev("erase", <<>>)>>

\* --------------------------------------- the read loop as a function
RECURSIVE ReadLoop(_, _, _, _)
\* what the read loop of ChatStream returns, and the callback invocations
\* it makes, on the data lines ls with text acc accumulated and
\* invocations cs made so far, the callback failing on its failAt-th call
ReadLoop(ls, acc, cs, failAt) ==
    IF ls = <<>> THEN [err |-> NoErr, text |-> acc, calls |-> cs]
    ELSE LET l == Head(ls) IN
         IF l.kind = "readerr"
         THEN [err |-> Err("read", "error reading stream"), text |-> <<>>, calls |-> cs]
         ELSE IF IsDoneSentinel(l)
         THEN IF ScannerErr(l)
              THEN [err |-> Err("read", "error reading stream"), text |-> <<>>, calls |-> cs]
              ELSE [err |-> NoErr, text |-> acc, calls |-> cs]
         ELSE IF ~UnmarshalOK(l)
         THEN [err |-> Err("parse", "failed to parse streaming chunk"), text |-> <<>>,
               calls |-> cs]
         ELSE IF ~HasContent(l) THEN ReadLoop(Tail(ls), acc, cs, failAt)
         ELSE IF Len(cs) + 1 = failAt
         THEN [err |-> CallbackErr, text |-> <<>>, calls |-> Append(cs, DeltaContent(l))]
         ELSE ReadLoop(Tail(ls), WriteString(acc, DeltaContent(l)),
                       Append(cs, DeltaContent(l)), failAt)

\* a line that is blank or lacks the "data: " prefix
Ignorable(l) == l.kind \in {"blank", "noprefix"}

RECURSIVE WithoutIgnorable(_)
\* the lines of ls that are not ignorable, in order
WithoutIgnorable(ls) ==
    IF ls = <<>> THEN <<>>
    ELSE (IF Ignorable(Head(ls)) THEN <<>> ELSE <<Head(ls)>>) \o WithoutIgnorable(Tail(ls))

\* C34: blank lines and lines without the "data: " prefix are ignored
\* wherever they occur: the callback invocations, the returned text and the
\* outcome of ChatStream are those of the same stream with every such line
\* removed, so inserting or removing such lines changes none of them.
C34_IgnorableLines ==
    (caller = "harness" /\ spc = "ret" /\ Received)
        => [err |-> sres.err, text |-> sres.text, calls |-> calls]
               = ReadLoop(WithoutIgnorable(body), <<>>, <<>>, cbFailAt)

\* a stream with a line without prefix before a delta and a blank line
\* after it has returned the delta
C34_Witness ==
    /\ caller = "harness" /\ spc = "ret" /\ Received /\ cbFailAt = 0
    /\ body = <<Line("noprefix", 0, <<>>, FALSE), Line("chunk", 1, <<"a">>, FALSE),
                Line("blank", 0, <<>>, FALSE)>>
    /\ sres = [err |-> NoErr, text |-> <<"a">>]
    /\ calls = <<<<"a">>>>

\* the read loop is at a decoded frame with no choices or an empty content
AtEmptyDelta ==
    /\ caller = "harness"
    /\ spc = "scan" /\ pos <= Len(body)
    /\ body[pos].kind = "chunk"
    /\ body[pos].choices = 0 \/ body[pos].content = <<>>

\* C35: a frame whose first choice carries an empty content, or that
\* carries no choices, invokes no callback, accumulates nothing and does
\* not end the stream, finish reason or not: reading goes on with the next
\* line.
C35_EmptyDelta ==
    [][AtEmptyDelta =>
          /\ calls' = calls
          /\ accumulated' = accumulated
          /\ sres' = sres
          /\ spc' = "scan"
          /\ pos' = pos + 1]_vars

\* a delta that follows an empty delta with a finish reason was delivered
C35_Witness ==
    /\ caller = "harness" /\ spc = "ret" /\ Received /\ cbFailAt = 0
    /\ body = <<Line("chunk", 1, <<>>, TRUE), Line("chunk", 1, <<"a">>, FALSE),
                Line("done", 0, <<>>, FALSE)>>
    /\ sres = [err |-> NoErr, text |-> <<"a">>]
    /\ calls = <<<<"a">>>>

\* --------------------------------------- more properties of the commands
\* the messages of the command errors
CommandErrorMessages ==
    {"No response to copy from", "No code block to copy", "Clipboard not available",
     "Unknown command"}

\* the step handles a command line whose command reports an error
CommandFails ==
    /\ EndsInput
    /\ lastInput'.kind = "command"
    /\ lastInput'.err # NoCmdErr

\* C36: every command error (no response, no code block, clipboard not
\* available, unknown command) is written to the diagnostic output and not
\* to the normal output, and never makes the run fail: the loop goes on,
\* and an exit command entered later still ends the run with success.
C36_CommandErrors ==
    /\ [][CommandFails =>
             /\ lastInput'.err.msg \in CommandErrorMessages
             /\ stderr' = Append(stderr, lastInput'.err)
             /\ stdout' = stdout
             /\ pc' = "await"
             /\ runErr' = runErr
             /\ conv' = conv /\ requests' = requests]_vars
    /\ [][(caller = "run" /\ pc = "read" /\ stderr # <<>>
              /\ lastInput'.kind = "command" /\ NameOf(lastInput'.line) \in ExitNames)
            => (pc' = "done" /\ runErr' = Err("nil", "nil") /\ stderr' = stderr)]_vars

\* an unknown command was reported, then an exit command ended the run
\* with success
C36_Witness ==
    /\ caller = "run" /\ pc = "done"
    /\ runErr = Err("nil", "nil")
    /\ stderr = <<CmdErr("Unknown command", <<"x">>)>>
    /\ lastInput.kind = "command" /\ NameOf(lastInput.line) \in ExitNames
    /\ \A i \in 1..Len(stdout) : stdout[i].k \in {"token", "newline", "prompt", "Goodbye"}

\* the names the dispatcher knows
KnownNames == ExitNames \cup {CopyName, <<"h", "e", "l", "p">>}

\* the trimmed, lower-cased text of a line after its slash
AfterSlash(line) == Tail(Normal(line))

\* C37: a line that starts with a slash once trimmed and whose trimmed,
\* lower-cased text after the slash is not exactly copy, bye, quit, exit or
\* help (a bare slash and a known name followed by more text included) is
\* rejected with the unknown-command error, which embeds that text and
\* points to /help; nothing is printed or copied and the loop is not left.
C37_UnknownCommand ==
    (caller = "command" /\ tpc = "done") =>
        \A i \in 1..2 :
            AfterSlash(txt[i]) \notin KnownNames =>
                /\ tres[i].isCommand
                /\ tres[i].r = CmdResult(FALSE, CmdErr("Unknown command", AfterSlash(txt[i])),
                                         <<>>, <<>>)

\* a bare slash and a copy followed by more text have both been rejected
C37_Witness ==
    /\ caller = "command" /\ tpc = "done"
    /\ txt[1] = <<" ", "/", " ", "\n">>
    /\ txt[2] = <<"/", "C", "o", "p", "y", " ", "N", "o", "w">>
    /\ clipboard = "cmdok" /\ response = DOpen \o DText \o Fence
    /\ tres[1].r.err = CmdErr("Unknown command", <<>>)
    /\ tres[2].r.err = CmdErr("Unknown command", <<"c", "o", "p", "y", " ", "n", "o", "w">>)
    /\ ~tres[2].r.exit /\ tres[2].r.written = <<>>

\* ------------------------------------- more properties of the input loop
\* the step is a read of the input loop that fails
ReadFails ==
    /\ caller = "run" /\ pc = "read"
    /\ inputsRead' = inputsRead + 1
    /\ lastInput'.kind = "fail"

\* C38: when reading the next input line fails or the input has ended, the
\* run ends with a failure and sends no further request; nothing is read
\* or sent after it, so the loop cannot spin on an exhausted input.
C38_ReadFailureEnds ==
    /\ [][ReadFails =>
             /\ pc' = "done"
             /\ runErr' = Err("input", "failed to read input")
             /\ requests' = requests /\ conv' = conv]_vars
    /\ [][(caller = "run" /\ pc = "done") =>
             /\ pc' = "done" /\ runErr' = runErr
             /\ requests' = requests /\ inputsRead' = inputsRead]_vars

\* after one reply and one command the input ended and the run failed
C38_Witness ==
    /\ caller = "run" /\ pc = "done"
    /\ lastInput.kind = "fail"
    /\ inputsRead = 2
    /\ Len(requests) = 1
    /\ runErr = Err("input", "failed to read input")

\* ------------------------------------- more properties of the exit status
\* the process reached runWithDeps and a backend request failed there
BackendRequestFailed ==
    /\ txt.args = "idea" /\ txt.config = "ok" /\ (txt.cfgModel \/ txt.cliModel) /\ txt.prompt
    /\ txt.outcome \in {"connect", "http", "parse", "read"}

\* C39: every run that fails because a backend request failed exits with
\* status 2, whatever the text of the underlying error is.
C39_BackendFailureExit ==
    (caller = "main" /\ tpc = "done" /\ BackendRequestFailed /\ ~Interrupted)
        => tres.code = ExitLLMError
====
